---- MODULE Spec2Model ----
(***************************************************************************)
(* Model of the BI stack of MeyaElyes/BI-Project: the Airflow ETL DAG      *)
(* (dags/energy_etl_dag.py) that cleans four CSV datasets and replaces     *)
(* four PostgreSQL tables, and the read-only Django REST API               *)
(* (backend/api/views.py, models.py) over those tables.                    *)
(*                                                                         *)
(* Text is a sequence of one-character strings, so that lower(), replace() *)
(* strip(), "in" and icontains are computed character by character.  A     *)
(* data frame is [cols |-> column names, rows |-> tuples of cells]; a cell *)
(* is [k, n, s]: k = "num" (value n), "str" (text s), "date" (day n) or    *)
(* "nan" (pandas NaN / None, SQL NULL).                                    *)
(***************************************************************************)
EXTENDS Integers, Sequences, FiniteSets, TLC

\* ------------------------------------------------------------------ bounds

\* Rows in one input CSV file.
MaxRows == 3
\* Rows in a destination table the API is queried over.
MaxTableRows == 2
\* Pipeline runs started in one behaviour.
MaxRuns == 2
\* Exceptions raised by tasks in one behaviour.
MaxFailures == 2

\* The longest run of separators in a column name.
MaxRunLen == 3

\* -------------------------------------------------------------------- text

UpperChars == <<"A","B","C","D","E","F","G","H","I","J","K","L","M",
                "N","O","P","Q","R","S","T","U","V","W","X","Y","Z">>

LowerChars == <<"a","b","c","d","e","f","g","h","i","j","k","l","m",
                "n","o","p","q","r","s","t","u","v","w","x","y","z">>

DigitChars == <<"0","1","2","3","4","5","6","7","8","9">>

\* U+2082, the subscript two of "CO2" in the emissions header.
Sub2 == "SUBSCRIPT_TWO"

\* str.lower() on one character.
LowerChar(c) ==
  IF \E i \in 1..26 : UpperChars[i] = c
    THEN LowerChars[CHOOSE i \in 1..26 : UpperChars[i] = c]
    ELSE c

\* str.lower()
LowerStr(s) == [i \in 1..Len(s) |-> LowerChar(s[i])]

\* Python's "sub in s".
Contains(s, sub) ==
  \E i \in 0..(Len(s) - Len(sub)) : SubSeq(s, i + 1, i + Len(sub)) = sub

\* str.replace(old, new): non-overlapping occurrences, left to right.
RECURSIVE ReplaceAll(_, _, _)
ReplaceAll(s, old, new) ==
  IF Len(s) < Len(old) THEN s
  ELSE IF SubSeq(s, 1, Len(old)) = old
    THEN new \o ReplaceAll(SubSeq(s, Len(old) + 1, Len(s)), old, new)
    ELSE <<Head(s)>> \o ReplaceAll(Tail(s), old, new)

\* str.lstrip(c)
RECURSIVE LStrip(_, _)
LStrip(s, c) == IF s # <<>> /\ Head(s) = c THEN LStrip(Tail(s), c) ELSE s

\* str.rstrip(c)
RECURSIVE RStrip(_, _)
RStrip(s, c) ==
  IF s # <<>> /\ s[Len(s)] = c THEN RStrip(SubSeq(s, 1, Len(s) - 1), c) ELSE s

\* str.strip(c)
Strip(s, c) == RStrip(LStrip(s, c), c)

\* The column-name rewrite of the clean stage.
NormalizeColumn(col) ==
  LET a == LowerStr(col)
      b == ReplaceAll(a, <<Sub2>>, <<"2">>)
      c == ReplaceAll(ReplaceAll(b, <<"(">>, <<>>), <<")">>, <<>>)
      d == ReplaceAll(c, <<" ", "-", " ">>, <<"_">>)
      e == ReplaceAll(d, <<" ">>, <<"_">>)
      f == ReplaceAll(e, <<"-">>, <<"_">>)
      g == ReplaceAll(f, <<"_", "_">>, <<"_">>)
  IN Strip(g, "_")

\* ------------------------------------------------------------------- cells

NaN == [k |-> "nan", n |-> 0, s |-> <<>>]

Num(v) == [k |-> "num", n |-> v, s |-> <<>>]

Str(t) == [k |-> "str", n |-> 0, s |-> t]

Date(d) == [k |-> "date", n |-> d, s |-> <<>>]

IsDigit(c) == \E i \in 1..10 : DigitChars[i] = c

DigitValue(c) == (CHOOSE i \in 1..10 : DigitChars[i] = c) - 1

AllDigits(t) == t # <<>> /\ \A i \in 1..Len(t) : IsDigit(t[i])

\* The value of a run of decimal digits.
RECURSIVE DecValue(_)
DecValue(t) ==
  IF t = <<>> THEN 0
  ELSE 10 * DecValue(SubSeq(t, 1, Len(t) - 1)) + DigitValue(t[Len(t)])

\* The position of the first "." of a text, 0 when it has none.
DotAt(t) ==
  IF \E i \in 1..Len(t) : t[i] = "."
    THEN CHOOSE i \in 1..Len(t) : t[i] = "." /\ \A j \in 1..(i - 1) : t[j] # "."
    ELSE 0

\* Whether the float parser of pandas accepts the text.  The model's texts are
\* unsigned decimals: digits, or digits "." zeros (a float of integral value).
IsNumberText(t) ==
  LET p == DotAt(t)
  IN IF p = 0 THEN AllDigits(t)
     ELSE /\ AllDigits(SubSeq(t, 1, p - 1))
          /\ \A i \in (p + 1)..Len(t) : t[i] = "0"

\* The number an accepted text denotes.
NumberValue(t) ==
  LET p == DotAt(t)
  IN IF p = 0 THEN DecValue(t) ELSE DecValue(SubSeq(t, 1, p - 1))

\* str(x) of a cell value, as the entity classifier applies it.
PyStr(c) ==
  IF c.k = "str" THEN c.s
  ELSE IF c.k = "nan" THEN <<"n","a","n">>
  ELSE <<>>

\* ------------------------------------------------------------------ frames

ColEntity == <<"e","n","t","i","t","y">>

ColCode == <<"c","o","d","e">>

ColYear == <<"y","e","a","r">>

ColId == <<"i","d">>

ColDataSource == <<"d","a","t","a","_","s","o","u","r","c","e">>

ColDataQualityFlag ==
  <<"d","a","t","a","_","q","u","a","l","i","t","y","_","f","l","a","g">>

ColLastUpdated == <<"l","a","s","t","_","u","p","d","a","t","e","d">>

ColEntityType == <<"e","n","t","i","t","y","_","t","y","p","e">>

TxtClean == <<"c","l","e","a","n">>

TxtAggregate == <<"a","g","g","r","e","g","a","t","e">>

TxtCountry == <<"c","o","u","n","t","r","y">>

\* "name in df.columns"
HasCol(df, name) == \E j \in 1..Len(df.cols) : df.cols[j] = name

\* The position of the (first) column of that name.
ColIndex(df, name) ==
  CHOOSE j \in 1..Len(df.cols) :
    df.cols[j] = name /\ \A h \in 1..(j - 1) : df.cols[h] # name

\* df[name] = f(row), on an existing column.
MapCol(df, name, F(_)) ==
  LET j == ColIndex(df, name)
  IN [df EXCEPT !.rows =
        [i \in 1..Len(df.rows) |-> [df.rows[i] EXCEPT ![j] = F(df.rows[i][j])]]]

\* df[name] = value(row), on a new column (appended last).
AddCol(df, name, V(_)) ==
  [cols |-> Append(df.cols, name),
   rows |-> [i \in 1..Len(df.rows) |-> Append(df.rows[i], V(df.rows[i]))]]

\* df[mask]: the rows that pass, in order.
FilterRows(rows, Keep(_)) == SelectSeq(rows, Keep)

\* pd.read_csv: a column whose non-empty cells all parse as numbers is numeric,
\* any other column keeps its texts; an empty cell is NaN in both.
ColumnIsNumeric(file, j) ==
  \A i \in 1..Len(file.rows) :
    file.rows[i][j] = <<>> \/ IsNumberText(file.rows[i][j])

ReadCsv(file) ==
  [cols |-> file.header,
   rows |-> [i \in 1..Len(file.rows) |->
              [j \in 1..Len(file.header) |->
                IF file.rows[i][j] = <<>> THEN NaN
                ELSE IF ColumnIsNumeric(file, j)
                  THEN Num(NumberValue(file.rows[i][j]))
                  ELSE Str(file.rows[i][j])]]]

\* df.columns = [col.lower()...strip('_') for col in df.columns]
StandardizeColumns(df) ==
  [df EXCEPT !.cols = [j \in 1..Len(df.cols) |-> NormalizeColumn(df.cols[j])]]

\* df['code'] = df['code'].replace('', np.nan)
HandleMissingCodes(df) ==
  IF HasCol(df, ColCode)
    THEN MapCol(df, ColCode, LAMBDA c : IF c = Str(<<>>) THEN NaN ELSE c)
    ELSE df

\* df.drop_duplicates(): the first of each group of equal rows is kept.
RECURSIVE DedupRows(_, _)
DedupRows(rows, seen) ==
  IF rows = <<>> THEN <<>>
  ELSE IF Head(rows) \in seen
    THEN DedupRows(Tail(rows), seen)
    ELSE <<Head(rows)>> \o DedupRows(Tail(rows), seen \cup {Head(rows)})

DropDuplicates(df) == [df EXCEPT !.rows = DedupRows(df.rows, {})]

\* pd.to_numeric(x, errors='coerce') on one cell.
ToNumeric(c) ==
  IF c.k = "num" THEN c
  ELSE IF c.k = "str" /\ IsNumberText(c.s) THEN Num(NumberValue(c.s))
  ELSE NaN

MinYear == 1750

MaxYear == 2025

\* The year filter without its upper bound.
YearInRangeNoUpper(c) == c.k = "num" /\ c.n >= MinYear

\* The comparison with the bounds left out: 1750 < year < 2025.
YearInRangeExclusive(c) == c.k = "num" /\ c.n > MinYear /\ c.n < MaxYear

\* (df['year'] >= 1750) & (df['year'] <= 2025) on one cell; NaN compares false.
YearInRange(c) == c.k = "num" /\ c.n >= MinYear /\ c.n <= MaxYear

\* The clean stage without its year validation.
ValidateYearsSkipped(df) == df

\* The year validation of the clean stage.
ValidateYears(df) ==
  IF HasCol(df, ColYear)
    THEN LET num == MapCol(df, ColYear, ToNumeric)
             j == ColIndex(df, ColYear)
         IN [num EXCEPT !.rows = FilterRows(num.rows, LAMBDA r : YearInRange(r[j]))]
    ELSE df

Aggregates ==
  { <<"W","o","r","l","d">>, <<"A","f","r","i","c","a">>, <<"A","s","i","a">>,
    <<"E","u","r","o","p","e">>, <<"O","E","C","D">>, <<"E","U">>,
    <<"A","S","E","A","N">> }

\* The classifier matching the labels without regard to letter case.
ClassifyEntityAnyCase(c) ==
  IF \E agg \in Aggregates : Contains(LowerStr(PyStr(c)), LowerStr(agg))
    THEN Str(TxtAggregate)
    ELSE Str(TxtCountry)

\* 'aggregate' if any(agg in str(x) for agg in aggregates) else 'country'
ClassifyEntity(c) ==
  IF \E agg \in Aggregates : Contains(PyStr(c), agg)
    THEN Str(TxtAggregate)
    ELSE Str(TxtCountry)

\* The entity classification of the clean stage.
AddEntityType(df) ==
  IF HasCol(df, ColEntity)
    THEN LET j == ColIndex(df, ColEntity)
         IN AddCol(df, ColEntityType, LAMBDA r : ClassifyEntity(r[j]))
    ELSE df

\* The provenance columns of the clean stage.
AddMetadata(df, keyText, day) ==
  AddCol(AddCol(AddCol(df, ColDataSource, LAMBDA r : Str(keyText)),
                ColDataQualityFlag, LAMBDA r : Str(TxtClean)),
         ColLastUpdated, LAMBDA r : Date(day))

\* One iteration of the loop of clean_and_transform_data, from the frame read to
\* the frame written.
CleanFrame(df, keyText, day) ==
  AddEntityType(
    AddMetadata(
      ValidateYears(DropDuplicates(HandleMissingCodes(StandardizeColumns(df)))),
      keyText, day))

\* ---------------------------------------------------------------- datasets

\* The keys of the datasets dict of load_data_and_metadata, in insertion order.
DatasetKeys ==
  <<"co2_emissions", "electricity_production", "oil_production", "energy_prod_cons">>

Datasets == {DatasetKeys[j] : j \in 1..Len(DatasetKeys)}

\* The key as the text written to the data_source column.
KeyText(key) ==
  CASE key = "co2_emissions" ->
         <<"c","o","2","_","e","m","i","s","s","i","o","n","s">>
    [] key = "electricity_production" ->
         <<"e","l","e","c","t","r","i","c","i","t","y","_",
           "p","r","o","d","u","c","t","i","o","n">>
    [] key = "oil_production" ->
         <<"o","i","l","_","p","r","o","d","u","c","t","i","o","n">>
    [] key = "energy_prod_cons" ->
         <<"e","n","e","r","g","y","_","p","r","o","d","_","c","o","n","s">>

\* No file at a path, no table of a name: a frame always has a column.
Missing == [cols |-> <<>>, rows |-> <<>>]

Exists(df) == df # Missing

\* ------------------------------------------------------------------- state

VARIABLES
  files,     \* DATA_DIR: the CSV file of each dataset (header and text rows)
  today,     \* datetime.now().date()
  tmpRaw,    \* /tmp/<key>.parquet
  tmpClean,  \* /tmp/<key>_cleaned.parquet
  tables,    \* PostgreSQL: the table cleaned_<key>
  runs,      \* the DAG runs: the position and the XCom values of each
  failures,  \* how many exceptions tasks have raised so far
  history,   \* history: input and table statistics of each successful run
  resp,      \* the API's last request and its response
  dash       \* the run of a dashboard script: what it fetched and rendered

vars == <<files, today, tmpRaw, tmpClean, tables, runs, failures, history, resp, dash>>

pipelineVars == <<files, today, tmpRaw, tmpClean, tables, runs, failures, history>>

RunIds == 1..MaxRuns

\* retries of default_args
Retries == 1

NoXCom ==
  [pushed |-> {}, loaded_data_keys |-> <<>>, cleaning_summary |-> <<>>,
   cleaned_dataset_keys |-> <<>>, load_summary |-> <<>>,
   total_datasets |-> 0, successful_loads |-> 0, failed_loads |-> 0]

\* A run that was not started: pc is the task that is to execute (or the run's
\* final state), i the position in the task's loop, try the attempt of the task,
\* loaded and summary the task's local loaded_data and summary list, done the
\* tasks of the run whose task instance is in state success, in that order, df
\* the frame load_to_postgres has written and not yet counted.
NoRun ==
  [pc |-> "none", i |-> 0, try |-> 0, loaded |-> <<>>, summary |-> <<>>,
   xcom |-> NoXCom, done |-> <<>>, df |-> Missing]

Finished(r) == runs[r].pc \in {"none", "success", "failed"}

\* The dependencies with the load before the clean:
\* task_load >> task_load_db >> task_clean >> task_report
NextTaskLoadFirst(pc) ==
  CASE pc = "load_data" -> "load_postgres"
    [] pc = "load_postgres" -> "clean_transform"
    [] pc = "clean_transform" -> "generate_report"
    [] pc = "generate_report" -> "success"

\* task_load >> task_clean >> task_load_db >> task_report
NextTask(pc) ==
  CASE pc = "load_data" -> "clean_transform"
    [] pc = "clean_transform" -> "load_postgres"
    [] pc = "load_postgres" -> "generate_report"
    [] pc = "generate_report" -> "success"

\* A task returned: the next task of the run is to execute, on its first try.
TaskDone(run, xcom) ==
  [pc |-> NextTask(run.pc), i |-> 1, try |-> 1, loaded |-> <<>>,
   summary |-> <<>>, xcom |-> xcom, done |-> Append(run.done, run.pc),
   df |-> Missing]

\* A task raised, under retries = 2: it is tried up to three times.
TaskFailedTwoRetries(run) ==
  IF run.try <= 2
    THEN [run EXCEPT !.i = 1, !.try = run.try + 1, !.loaded = <<>>, !.summary = <<>>]
    ELSE [run EXCEPT !.pc = "failed", !.loaded = <<>>, !.summary = <<>>]

\* A task raised, the report under trigger_rule = 'all_done': when the load has
\* used up its tries the report executes all the same.
TaskFailedAllDone(run) ==
  IF run.try <= Retries
    THEN [run EXCEPT !.i = 1, !.try = run.try + 1, !.loaded = <<>>, !.summary = <<>>]
    ELSE IF run.pc = "load_postgres"
      THEN [run EXCEPT !.pc = "generate_report", !.i = 1, !.try = 1,
                       !.loaded = <<>>, !.summary = <<>>]
      ELSE [run EXCEPT !.pc = "failed", !.loaded = <<>>, !.summary = <<>>]

\* A task raised: it is tried once more from its start (retries = 1) or the run
\* has failed.
TaskFailed(run) ==
  IF run.try <= Retries
    THEN [run EXCEPT !.i = 1, !.try = run.try + 1, !.loaded = <<>>, !.summary = <<>>]
    ELSE [run EXCEPT !.pc = "failed", !.loaded = <<>>, !.summary = <<>>]

\* The scheduler creates the day's DAG run (schedule='@daily'); its first task
\* is load_data.  A run of the schedule ends within its day: the runs follow one
\* another, each on the day after the one before.
StartRun(r) ==
  /\ runs[r].pc = "none"
  /\ \A q \in RunIds : q < r => runs[q].pc \in {"success", "failed"}
  /\ runs' = [runs EXCEPT ![r] = [NoRun EXCEPT !.pc = "load_data", !.i = 1, !.try = 1]]
  /\ today' = today + 1
  /\ UNCHANGED <<files, tmpRaw, tmpClean, tables, failures, history, resp, dash>>

\* A DAG run is triggered by hand, or the schedule creates one while an earlier
\* run has not ended: the DAG sets no max_active_runs, and Airflow's default
\* (16) lets the runs execute side by side.
TriggerRun(r) ==
  /\ runs[r].pc = "none"
  /\ \A q \in RunIds : q < r => runs[q].pc # "none"
  /\ runs' = [runs EXCEPT ![r] = [NoRun EXCEPT !.pc = "load_data", !.i = 1, !.try = 1]]
  /\ UNCHANGED <<files, today, tmpRaw, tmpClean, tables, failures, history, resp, dash>>

\* The metadata file beside a CSV: absent, JSON, or present and not JSON.
MetadataStates == {"missing", "valid", "invalid"}

\* The read loop with the metadata opened without the exists() test.
ReadRaisesWithoutMetadata(file) ==
  IF Exists(file) THEN file.metadata \in {"missing", "invalid"} ELSE TRUE

\* An iteration of the read loop raises: read_csv on an absent CSV, json.load
\* on a metadata file that is there (metadata_path.exists()) and is not JSON.
ReadRaises(file) ==
  IF Exists(file) THEN file.metadata = "invalid" ELSE TRUE

\* load_data_and_metadata, first loop: every CSV is read, the keys are pushed.
\* The task's position i = 1 with nothing loaded is its start.
LoadDataRead(r) ==
  /\ runs[r].pc = "load_data" /\ runs[r].i = 1 /\ runs[r].loaded = <<>>
  /\ \A d \in Datasets : ~ReadRaises(files[d])
  /\ runs' = [runs EXCEPT
       ![r].loaded = [j \in 1..Len(DatasetKeys) |-> ReadCsv(files[DatasetKeys[j]])],
       ![r].xcom.pushed = @ \cup {"loaded_data_keys"},
       ![r].xcom.loaded_data_keys = DatasetKeys]
  /\ UNCHANGED <<files, today, tmpRaw, tmpClean, tables, failures, history, resp, dash>>

\* load_data_and_metadata, second loop: one to_parquet; the last one ends the task.
LoadDataWrite(r) ==
  LET run == runs[r]
      key == DatasetKeys[run.i]
  IN /\ run.pc = "load_data" /\ run.loaded # <<>> /\ run.i <= Len(run.loaded)
     /\ tmpRaw' = [tmpRaw EXCEPT ![key] = run.loaded[run.i]]
     /\ runs' = [runs EXCEPT ![r] =
          IF run.i = Len(run.loaded) THEN TaskDone(run, run.xcom)
          ELSE [run EXCEPT !.i = run.i + 1]]
     /\ UNCHANGED <<files, today, tmpClean, tables, failures, history, resp, dash>>

\* load_data_and_metadata raises on its input, in the read loop: except ...
\* raise, before the push and before any to_parquet.
LoadDataRaise(r) ==
  /\ runs[r].pc = "load_data" /\ runs[r].i = 1 /\ runs[r].loaded = <<>>
  /\ \E d \in Datasets : ReadRaises(files[d])
  /\ failures < MaxFailures
  /\ failures' = failures + 1
  /\ runs' = [runs EXCEPT ![r] = TaskFailed(runs[r])]
  /\ UNCHANGED <<files, today, tmpRaw, tmpClean, tables, history, resp, dash>>

\* load_data_and_metadata raises on files that are in order (a read error of
\* the disk): except ... raise.
LoadDataFail(r) ==
  /\ runs[r].pc = "load_data" /\ runs[r].i = 1 /\ runs[r].loaded = <<>>
  /\ failures < MaxFailures
  /\ failures' = failures + 1
  /\ runs' = [runs EXCEPT ![r] = TaskFailed(runs[r])]
  /\ UNCHANGED <<files, today, tmpRaw, tmpClean, tables, history, resp, dash>>

\* The entry with the difference taken the other way round.
CleaningEntryReversed(key, original, cleaned) ==
  [dataset |-> key, original_rows |-> original, cleaned_rows |-> cleaned,
   removed_rows |-> cleaned - original]

CleaningEntry(key, original, cleaned) ==
  [dataset |-> key, original_rows |-> original, cleaned_rows |-> cleaned,
   removed_rows |-> original - cleaned]

\* clean_and_transform_data, one iteration of its loop; after the last one the
\* summary and the keys are pushed and the task ends.
CleanStep(r) ==
  LET run == runs[r]
      keys == run.xcom.loaded_data_keys
      key == keys[run.i]
      df == tmpRaw[key]
      out == CleanFrame(df, KeyText(key), today)
      summary == Append(run.summary, CleaningEntry(key, Len(df.rows), Len(out.rows)))
  IN /\ run.pc = "clean_transform" /\ run.i <= Len(keys)
     /\ Exists(df)
     /\ tmpClean' = [tmpClean EXCEPT ![key] = out]
     /\ runs' = [runs EXCEPT ![r] =
          IF run.i = Len(keys)
            THEN TaskDone(run, [run.xcom EXCEPT
                   !.pushed = @ \cup {"cleaning_summary", "cleaned_dataset_keys"},
                   !.cleaning_summary = summary,
                   !.cleaned_dataset_keys = keys])
            ELSE [run EXCEPT !.i = run.i + 1, !.summary = summary]]
     /\ UNCHANGED <<files, today, tmpRaw, tables, failures, history, resp, dash>>

\* clean_and_transform_data raises in an iteration (nothing catches it).
CleanFail(r) ==
  /\ runs[r].pc = "clean_transform"
  /\ failures < MaxFailures
  /\ failures' = failures + 1
  /\ runs' = [runs EXCEPT ![r] = TaskFailed(runs[r])]
  /\ UNCHANGED <<files, today, tmpRaw, tmpClean, tables, history, resp, dash>>

\* -------------------------------------------------------------- aggregates

\* An aggregate's value: None, or the fraction num/den (den = 1 but for Avg).
None == [null |-> TRUE, num |-> 0, den |-> 1]

Value(v) == [null |-> FALSE, num |-> v, den |-> 1]

\* The non-NULL numbers of a column, in row order.
ColumnNumbers(t, j) ==
  LET nums == SelectSeq(t.rows, LAMBDA r : r[j].k = "num")
  IN [i \in 1..Len(nums) |-> nums[i][j].n]

RECURSIVE SeqSum(_)
SeqSum(q) == IF q = <<>> THEN 0 ELSE Head(q) + SeqSum(Tail(q))

SeqRange(q) == {q[i] : i \in 1..Len(q)}

\* SQL SUM, AVG, MAX, MIN over a column: NULLs are skipped, and the result is
\* NULL (None) when no number is left.
AggSum(q) == IF q = <<>> THEN None ELSE Value(SeqSum(q))

AggAvg(q) == IF q = <<>> THEN None ELSE [null |-> FALSE, num |-> SeqSum(q), den |-> Len(q)]

\* MAX with the empty set answered 0 instead of NULL.
AggMaxOrZero(q) ==
  IF q = <<>> THEN Value(0)
  ELSE Value(CHOOSE v \in SeqRange(q) : \A w \in SeqRange(q) : w <= v)

AggMax(q) ==
  IF q = <<>> THEN None
  ELSE Value(CHOOSE v \in SeqRange(q) : \A w \in SeqRange(q) : w <= v)

AggMin(q) ==
  IF q = <<>> THEN None
  ELSE Value(CHOOSE v \in SeqRange(q) : \A w \in SeqRange(q) : v <= w)

\* COUNT(column): the rows whose value is not NULL.
AggCount(t, j) == Value(Len(SelectSeq(t.rows, LAMBDA r : r[j].k # "nan")))

\* Row count and count/avg/min/max of every numeric column of a table.
TableStats(t) ==
  [count |-> Len(t.rows),
   columns |-> [j \in 1..Len(t.cols) |->
                 [avg |-> AggAvg(ColumnNumbers(t, j)),
                  min |-> AggMin(ColumnNumbers(t, j)),
                  max |-> AggMax(ColumnNumbers(t, j))]]]

\* -------------------------------------------------------------- load stage

\* The id column counted from 0: range(len(df)).
InsertIdFromZero(df) ==
  [cols |-> <<<<"i","d">>>> \o df.cols,
   rows |-> [i \in 1..Len(df.rows) |-> <<[k |-> "num", n |-> i - 1, s |-> <<>>]>> \o df.rows[i]]]

\* df.insert(0, 'id', range(1, len(df) + 1))
InsertId(df) ==
  [cols |-> <<ColId>> \o df.cols,
   rows |-> [i \in 1..Len(df.rows) |-> <<Num(i)>> \o df.rows[i]]]

\* to_sql with if_exists='append': the frame's rows are added to the table's.
ToSqlAppend(old, df) ==
  IF old = [cols |-> <<>>, rows |-> <<>>] THEN df
  ELSE [old EXCEPT !.rows = old.rows \o df.rows]

\* df.to_sql(name, if_exists='replace', index=False): the table that results
\* from the table of that name (Missing: none) and the frame.
ToSql(old, df) == df

LoadEntry(key, rows, status) ==
  [dataset |-> key, table_name |-> key, rows_loaded |-> rows, status |-> status]

\* load_to_postgres, one iteration of its loop: read the cleaned snapshot, add
\* the id column, replace the table, count its rows, record the success; after
\* the last iteration the summary is pushed and the task ends.
LoadStep(r) ==
  LET run == runs[r]
      keys == run.xcom.cleaned_dataset_keys
      key == keys[run.i]
      df == InsertId(tmpClean[key])
      written == ToSql(tables[key], df)
      summary == Append(run.summary, LoadEntry(key, Len(written.rows), "success"))
  IN /\ run.pc = "load_postgres" /\ run.i <= Len(keys)
     /\ Exists(tmpClean[key])
     /\ tables' = [tables EXCEPT ![key] = written]
     /\ runs' = [runs EXCEPT ![r] =
          IF run.i = Len(keys)
            THEN TaskDone(run, [run.xcom EXCEPT
                   !.pushed = @ \cup {"load_summary"},
                   !.load_summary = summary])
            ELSE [run EXCEPT !.i = run.i + 1, !.summary = summary]]
     /\ UNCHANGED <<files, today, tmpRaw, tmpClean, failures, history, resp, dash>>

\* load_to_postgres, the first half of an iteration, as it interleaves with
\* other runs: read the cleaned snapshot, add the id column, replace the table.
LoadWrite(r) ==
  LET run == runs[r]
      keys == run.xcom.cleaned_dataset_keys
      key == keys[run.i]
      df == InsertId(tmpClean[key])
  IN /\ run.pc = "load_postgres" /\ run.i <= Len(keys)
     /\ ~Exists(run.df)
     /\ Exists(tmpClean[key])
     /\ tables' = [tables EXCEPT ![key] = ToSql(@, df)]
     /\ runs' = [runs EXCEPT ![r].df = df]
     /\ UNCHANGED <<files, today, tmpRaw, tmpClean, failures, history, resp, dash>>

\* load_to_postgres, the second half of the iteration: SELECT COUNT(*) on the
\* table, and the success entry with the count as rows_loaded.
LoadCount(r) ==
  LET run == runs[r]
      keys == run.xcom.cleaned_dataset_keys
      key == keys[run.i]
      loaded_rows == Len(tables[key].rows)
      summary == Append(run.summary, LoadEntry(key, loaded_rows, "success"))
  IN /\ run.pc = "load_postgres" /\ run.i <= Len(keys)
     /\ Exists(run.df)
     /\ Exists(tables[key])
     /\ runs' = [runs EXCEPT ![r] =
          IF run.i = Len(keys)
            THEN TaskDone(run, [run.xcom EXCEPT
                   !.pushed = @ \cup {"load_summary"},
                   !.load_summary = summary])
            ELSE [run EXCEPT !.i = run.i + 1, !.summary = summary, !.df = Missing]]
     /\ UNCHANGED <<files, today, tmpRaw, tmpClean, tables, failures, history, resp, dash>>

\* Where an iteration of load_to_postgres can raise, by what the table is left
\* as: "unwritten" (read_parquet or to_sql raised and nothing was committed),
\* "emptied" (the table was dropped and created anew, the inserts were not
\* committed: to_sql of a pandas that does not wrap both in one transaction),
\* "written" (to_sql committed, the count query raised).
LoadOutcomes == {"unwritten", "emptied", "written"}

\* The except block without its raise: the failed entry is recorded and the loop
\* goes on to the next dataset.
LoadFailSwallowed(r, outcome) ==
  LET run == runs[r]
      keys == run.xcom.cleaned_dataset_keys
      key == keys[run.i]
      summary == Append(run.summary, LoadEntry(key, 0, "failed"))
  IN /\ run.pc = "load_postgres" /\ run.i <= Len(keys)
     /\ outcome \in LoadOutcomes
     /\ failures < MaxFailures
     /\ failures' = failures + 1
     /\ runs' = [runs EXCEPT ![r] =
          IF run.i = Len(keys)
            THEN TaskDone(run, [run.xcom EXCEPT
                   !.pushed = @ \cup {"load_summary"},
                   !.load_summary = summary])
            ELSE [run EXCEPT !.i = run.i + 1, !.summary = summary]]
     /\ UNCHANGED <<files, today, tmpRaw, tmpClean, tables, history, resp, dash>>

\* The load in one transaction over the four tables: an iteration that raises
\* undoes the attempt, here on tables no earlier run had written.
LoadFailAtomic(r, outcome) ==
  LET run == runs[r]
      keys == run.xcom.cleaned_dataset_keys
  IN /\ run.pc = "load_postgres" /\ run.i <= Len(keys)
     /\ outcome \in LoadOutcomes
     /\ tables' = [d \in DOMAIN tables |->
          IF \E j \in 1..(run.i - 1) : keys[j] = d THEN Missing ELSE tables[d]]
     /\ failures < MaxFailures
     /\ failures' = failures + 1
     /\ runs' = [runs EXCEPT ![r] = TaskFailed(run)]
     /\ UNCHANGED <<files, today, tmpRaw, tmpClean, history, resp, dash>>

\* load_to_postgres raises in an iteration: except ... append 'failed' ... raise.
\* The summary with the failed entry is local and is never pushed.
LoadFail(r, outcome) ==
  LET run == runs[r]
      keys == run.xcom.cleaned_dataset_keys
      key == keys[run.i]
      df == InsertId(tmpClean[key])
  IN /\ run.pc = "load_postgres" /\ run.i <= Len(keys)
     /\ outcome \in LoadOutcomes
     /\ outcome # "unwritten" => Exists(tmpClean[key])
     /\ tables' = [tables EXCEPT ![key] =
          CASE outcome = "unwritten" -> @
            [] outcome = "emptied" -> [ToSql(@, df) EXCEPT !.rows = <<>>]
            [] outcome = "written" -> ToSql(@, df)]
     /\ failures < MaxFailures
     /\ failures' = failures + 1
     /\ runs' = [runs EXCEPT ![r] = TaskFailed(run)]
     /\ UNCHANGED <<files, today, tmpRaw, tmpClean, history, resp, dash>>

CountStatus(summary, status) ==
  Len(SelectSeq(summary, LAMBDA e : e.status = status))

\* generate_report: the counts of the report are pushed; the run has succeeded.
GenerateReport(r) ==
  LET run == runs[r]
      xcom == [run.xcom EXCEPT
                !.pushed = @ \cup {"final_report"},
                !.total_datasets = Len(run.xcom.cleaning_summary),
                !.successful_loads = CountStatus(run.xcom.load_summary, "success"),
                !.failed_loads = CountStatus(run.xcom.load_summary, "failed")]
  IN /\ run.pc = "generate_report"
     /\ runs' = [runs EXCEPT ![r] = TaskDone(run, xcom)]
     /\ history' = Append(history,
          [input |-> [d \in Datasets |-> files[d].rows],
           stats |-> [d \in Datasets |-> TableStats(tables[d])]])
     /\ UNCHANGED <<files, today, tmpRaw, tmpClean, tables, failures, resp, dash>>

\* --------------------------------------------------------------------- API

\* The resources of the router, by the dataset whose table each reads:
\* co2-emissions, electricity-production, oil-production, energy-prod-cons.
Resources == Datasets

\* The fields the Django model of each resource declares.
CommonFields ==
  {"id", "entity", "code", "year", "data_source", "data_quality_flag",
   "last_updated", "entity_type"}

\* The models with the fields the summaries name declared on them.
ModelFieldsOfSummaries(res) ==
  CommonFields \cup
    {"annual_co2_emissions", "oil_production_twh",
     "electricity_from_fossil_fuels_twh", "electricity_from_nuclear_twh",
     "electricity_from_renewables_twh", "primary_energy_consumption_twh",
     "consumption_based_energy", "production_based_energy"}

ModelFields(res) ==
  CASE res = "co2_emissions" -> CommonFields \cup {"annual_co2_emissions"}
    [] res = "electricity_production" ->
         CommonFields \cup
           {"other_renewables_excluding_bioenergy", "electricity_from_bioenergy",
            "electricity_from_solar", "electricity_from_wind",
            "electricity_from_hydro", "electricity_from_nuclear",
            "electricity_from_oil", "electricity_from_gas", "electricity_from_coal"}
    [] res = "energy_prod_cons" ->
         CommonFields \cup {"consumption_based_energy", "production_based_energy"}
    [] res = "oil_production" -> CommonFields \cup {"oil_production_twh"}

Agg(name, fn, fld) == [name |-> name, fn |-> fn, field |-> fld]

\* The aggregates each summary action asks for.
SummaryAggregates(res) ==
  CASE res = "co2_emissions" ->
         << Agg("total_records", "Count", "id"),
            Agg("avg_emissions", "Avg", "annual_co2_emissions"),
            Agg("max_emissions", "Max", "annual_co2_emissions"),
            Agg("min_emissions", "Min", "annual_co2_emissions"),
            Agg("latest_year", "Max", "year"),
            Agg("earliest_year", "Min", "year") >>
    [] res = "electricity_production" ->
         << Agg("total_records", "Count", "id"),
            Agg("avg_fossil", "Avg", "electricity_from_fossil_fuels_twh"),
            Agg("avg_nuclear", "Avg", "electricity_from_nuclear_twh"),
            Agg("avg_renewables", "Avg", "electricity_from_renewables_twh"),
            Agg("total_fossil", "Sum", "electricity_from_fossil_fuels_twh"),
            Agg("total_nuclear", "Sum", "electricity_from_nuclear_twh"),
            Agg("total_renewables", "Sum", "electricity_from_renewables_twh") >>
    [] res = "energy_prod_cons" ->
         << Agg("total_records", "Count", "id"),
            Agg("avg_consumption", "Avg", "primary_energy_consumption_twh"),
            Agg("max_consumption", "Max", "primary_energy_consumption_twh"),
            Agg("total_consumption", "Sum", "primary_energy_consumption_twh") >>
    [] res = "oil_production" ->
         << Agg("total_records", "Count", "id"),
            Agg("avg_production", "Avg", "oil_production_twh"),
            Agg("max_production", "Max", "oil_production_twh"),
            Agg("total_production", "Sum", "oil_production_twh") >>

\* db_column of the fields the views filter and aggregate on.
DbColumn(fld) ==
  CASE fld = "id" -> ColId
    [] fld = "entity" -> ColEntity
    [] fld = "code" -> ColCode
    [] fld = "year" -> ColYear
    [] fld = "entity_type" -> ColEntityType
    [] fld = "annual_co2_emissions" ->
         <<"a","n","n","u","a","l","_","c","o","2","_",
           "e","m","i","s","s","i","o","n","s">>
    [] fld = "oil_production_twh" ->
         <<"o","i","l","_","p","r","o","d","u","c","t","i","o","n","_","t","w","h">>

\* A query parameter: request.query_params.get(name, None).
Absent == [given |-> FALSE, s |-> <<>>]

Given(t) == [given |-> TRUE, s |-> t]

\* "if value:" on a parameter: None and '' are false.
Supplied(p) == p.given /\ p.s # <<>>

\* IntegerField.get_prep_value: int(value) raises ValueError on a text that is
\* no integer (the model's integers are runs of digits).
IsIntText(t) == AllDigits(t)

\* entity__icontains
IContains(c, t) == c.k = "str" /\ Contains(LowerStr(c.s), LowerStr(t))

\* code=..., entity_type=...: equality with the text; NULL equals nothing.
TextExact(c, t) == c = Str(t)

\* The year filter taken as a lower bound.
YearFrom(c, v) == c.k = "num" /\ c.n >= v

\* year=...
YearExact(c, v) == c.k = "num" /\ c.n = v

\* year__gte
YearGte(c, v) == c.k = "num" /\ c.n >= v

\* The range filter that leaves out the upper bound itself: year__lt.
YearLt(c, v) == c.k = "num" /\ c.n < v

\* year__lte
YearLte(c, v) == c.k = "num" /\ c.n <= v

\* The cell of a table row that holds a model field.
Field(t, row, fld) == row[ColIndex(t, DbColumn(fld))]

\* Whether one of the integer filters of the parameters raises ValueError.
FilterRaises(q) ==
  \/ Supplied(q.year) /\ ~IsIntText(q.year.s)
  \/ Supplied(q.year_min) /\ ~IsIntText(q.year_min.s)
  \/ Supplied(q.year_max) /\ ~IsIntText(q.year_max.s)

\* The table has the columns the query selects and filters on; the SELECT of
\* a model field whose db_column the table lacks raises ProgrammingError.
ColumnsExist(res) ==
  \A fld \in {"id", "entity", "code", "year", "entity_type"} :
    HasCol(tables[res], DbColumn(fld))

\* The query of a request raises: answered 500.
QueryRaises(res, q) == FilterRaises(q) \/ ~ColumnsExist(res)

\* get_queryset: the rows of the resource's table that pass every filter whose
\* parameter is supplied (the rows of all pages, in table order).
GetQueryset(res, q) ==
  LET t == tables[res]
      Passes(row) ==
        /\ Supplied(q.entity) => IContains(Field(t, row, "entity"), q.entity.s)
        /\ Supplied(q.code) => TextExact(Field(t, row, "code"), q.code.s)
        /\ Supplied(q.year) => YearExact(Field(t, row, "year"), DecValue(q.year.s))
        /\ Supplied(q.entity_type) =>
             TextExact(Field(t, row, "entity_type"), q.entity_type.s)
        /\ Supplied(q.year_min) =>
             YearGte(Field(t, row, "year"), DecValue(q.year_min.s))
        /\ Supplied(q.year_max) =>
             YearLte(Field(t, row, "year"), DecValue(q.year_max.s))
  IN [t EXCEPT !.rows = SelectSeq(t.rows, Passes)]

\* One aggregate of queryset.aggregate(...) over the filtered rows.
Aggregate(qs, a) ==
  LET j == ColIndex(qs, DbColumn(a.field))
  IN CASE a.fn = "Count" -> AggCount(qs, j)
       [] a.fn = "Avg" -> AggAvg(ColumnNumbers(qs, j))
       [] a.fn = "Sum" -> AggSum(ColumnNumbers(qs, j))
       [] a.fn = "Max" -> AggMax(ColumnNumbers(qs, j))
       [] a.fn = "Min" -> AggMin(ColumnNumbers(qs, j))

\* Whether aggregate() resolves every field it is given; it raises FieldError
\* on a name that is no field of the model.
FieldsResolve(res) ==
  \A i \in 1..Len(SummaryAggregates(res)) :
    SummaryAggregates(res)[i].field \in ModelFields(res)

NoStats == [n \in {} |-> None]

Response(kind, res, q, status, results, stats) ==
  [kind |-> kind, resource |-> res, params |-> q, status |-> status,
   results |-> results, stats |-> stats]

\* The collection answered 404 when no row passes the filters (get_list_or_404).
ListRequestOr404(res, q) ==
  /\ Exists(tables[res])
  /\ resp' =
       IF QueryRaises(res, q) THEN Response("list", res, q, 500, <<>>, NoStats)
       ELSE IF GetQueryset(res, q).rows = <<>>
         THEN Response("list", res, q, 404, <<>>, NoStats)
       ELSE Response("list", res, q, 200, GetQueryset(res, q).rows, NoStats)
  /\ UNCHANGED <<pipelineVars, dash>>

\* GET /api/<resource>/: 200 with the filtered rows; an exception raised by a
\* filter is answered 500.
ListRequest(res, q) ==
  /\ Exists(tables[res])
  /\ resp' =
       IF QueryRaises(res, q) THEN Response("list", res, q, 500, <<>>, NoStats)
       ELSE Response("list", res, q, 200, GetQueryset(res, q).rows, NoStats)
  /\ UNCHANGED <<pipelineVars, dash>>

\* GET /api/<resource>/summary/: 200 with the aggregates of the filtered rows;
\* an exception raised by a filter or by aggregate() is answered 500.
SummaryRequest(res, q) ==
  LET aggs == SummaryAggregates(res)
      qs == GetQueryset(res, q)
  IN /\ Exists(tables[res])
     /\ resp' =
          IF QueryRaises(res, q) \/ ~FieldsResolve(res)
            THEN Response("summary", res, q, 500, <<>>, NoStats)
            ELSE Response("summary", res, q, 200, <<>>,
                   [n \in {aggs[i].name : i \in 1..Len(aggs)} |->
                     Aggregate(qs, aggs[CHOOSE i \in 1..Len(aggs) : aggs[i].name = n])])
     /\ UNCHANGED <<pipelineVars, dash>>

\* A request without query parameters.
NoQuery ==
  [entity |-> Absent, code |-> Absent, year |-> Absent, entity_type |-> Absent,
   year_min |-> Absent, year_max |-> Absent]

\* GET /api/<resource>/<pk>/: get_object looks the primary key up in the
\* filtered queryset; 200 with the row, 404 without one, 500 when a filter raises.
RetrieveRequest(res, pk, q) ==
  LET qs == GetQueryset(res, q)
      found == SelectSeq(qs.rows, LAMBDA row : Field(qs, row, "id") = Num(pk))
  IN /\ Exists(tables[res])
     /\ resp' =
          IF QueryRaises(res, q) THEN Response("retrieve", res, q, 500, <<>>, NoStats)
          ELSE IF found = <<>> THEN Response("retrieve", res, q, 404, <<>>, NoStats)
          ELSE Response("retrieve", res, q, 200, <<found[1]>>, NoStats)
     /\ UNCHANGED <<pipelineVars, dash>>

\* The verbs a ReadOnlyModelViewSet has no handler for.
WriteVerbs == {"POST", "PUT", "PATCH", "DELETE"}

\* The viewset as a ModelViewSet: DELETE destroys the row of the primary key.
WriteRequestModelViewSet(res, verb, pk) ==
  /\ Exists(tables[res])
  /\ verb \in WriteVerbs
  /\ resp' = Response(verb, res, NoQuery, IF verb = "DELETE" THEN 204 ELSE 200, <<>>, NoStats)
  /\ tables' = [tables EXCEPT ![res].rows =
       IF verb = "DELETE"
         THEN SelectSeq(@, LAMBDA row : Field(tables[res], row, "id") # Num(pk))
         ELSE @]
  /\ UNCHANGED <<files, today, tmpRaw, tmpClean, runs, failures, history, dash>>

\* POST /api/<resource>/, PUT, PATCH, DELETE /api/<resource>/<pk>/: the viewset
\* has no create, update or destroy, the request is answered 405.
WriteRequest(res, verb, pk) ==
  /\ Exists(tables[res])
  /\ verb \in WriteVerbs
  /\ resp' = Response(verb, res, NoQuery, 405, <<>>, NoStats)
  /\ UNCHANGED <<pipelineVars, dash>>

\* -------------------------------------------------------------- dashboards

\* The two Streamlit scripts: app.py and energy_dashboard.py.
Apps == {"app", "energy_dashboard"}

\* TARGET_COUNTRY
TxtItaly == <<"I","t","a","l","y">>

\* pd.DataFrame(): no rows, no columns.
EmptyFrame == [cols |-> <<>>, rows |-> <<>>]

\* df.empty
IsEmpty(df) == df.rows = <<>> \/ df.cols = <<>>

\* What requests.get and response.json() come to: a 200 with the collection,
\* another status, a timeout, a connection error, a body that is no JSON
\* collection.
FetchOutcomes == {"ok", "status", "timeout", "connection", "undecodable"}

\* pd.DataFrame(data['results']): the records as rows, no columns without one.
DataFrameOf(qs) == IF qs.rows = <<>> THEN EmptyFrame ELSE qs

\* fetch_data(endpoint): the frame of the collection on a 200; otherwise
\* st.error (status branch or except branch) and an empty frame.
FetchData(d, outcome) ==
  [error |-> outcome # "ok",
   frame |-> IF outcome = "ok" THEN DataFrameOf(GetQueryset(d, NoQuery)) ELSE EmptyFrame]

\* df[df['entity'] == TARGET_COUNTRY]: KeyError without the column.
SelectItaly(df) ==
  IF HasCol(df, ColEntity)
    THEN [raised |-> FALSE,
          frame |-> [df EXCEPT !.rows =
                      SelectSeq(@, LAMBDA row : row[ColIndex(df, ColEntity)] = Str(TxtItaly))]]
    ELSE [raised |-> TRUE, frame |-> df]

\* The selection without its guard: df[df['entity'] == TARGET_COUNTRY].
ItalyOnlyUnguarded(df) == SelectItaly(df)

\* df[df['entity'] == TARGET_COUNTRY] if not df.empty else df
ItalyOnly(df) == IF ~IsEmpty(df) THEN SelectItaly(df) ELSE [raised |-> FALSE, frame |-> df]

\* if not df.empty and 'year' in df.columns: df = df[df['year'] >= 1995]
Since1995(df) ==
  IF ~IsEmpty(df) /\ HasCol(df, ColYear)
    THEN [df EXCEPT !.rows =
           SelectSeq(@, LAMBDA row : LET c == row[ColIndex(df, ColYear)]
                                     IN c.k = "num" /\ c.n >= 1995)]
    ELSE df

\* The pages of app.py: the overview of the four datasets and one page a dataset.
Pages == {"overview"} \cup Datasets

\* The datasets a page fetches, in the order of its fetch_data calls.
PageDatasets(page) == IF page = "overview" THEN DatasetKeys ELSE <<page>>

\* No script run: pc is the script's position, frames what fetch_data returned,
\* fetched the datasets fetched so far, last the outcome of the last fetch,
\* errors the datasets with an st.error, charts the datasets whose section was
\* rendered.
NoDash ==
  [app |-> "none", page |-> "none", pc |-> "idle",
   frames |-> [d \in Datasets |-> EmptyFrame], fetched |-> <<>>, last |-> "none",
   errors |-> {}, charts |-> {}]

\* A script is run: energy_dashboard.py shows the four datasets on one page.
OpenDashboard(app, page) ==
  /\ dash.pc = "idle"
  /\ app \in Apps /\ page \in Pages
  /\ app = "energy_dashboard" => page = "overview"
  /\ dash' = [NoDash EXCEPT !.app = app, !.page = page, !.pc = "fetching"]
  /\ UNCHANGED <<pipelineVars, resp>>

\* The next fetch_data call of the script.
FetchStep(outcome) ==
  LET keys == PageDatasets(dash.page)
      d == keys[Len(dash.fetched) + 1]
      got == FetchData(d, outcome)
  IN /\ dash.pc = "fetching" /\ Len(dash.fetched) < Len(keys)
     /\ outcome \in FetchOutcomes
     /\ dash' = [dash EXCEPT !.frames[d] = got.frame,
                             !.fetched = Append(@, d),
                             !.last = outcome,
                             !.errors = IF got.error THEN @ \cup {d} ELSE @]
     /\ UNCHANGED <<pipelineVars, resp>>

\* The rest of the script: energy_dashboard.py narrows every frame to Italy
\* since 1995; a section is rendered when its frame is not empty (and has the
\* year column, in energy_dashboard.py); an exception ends the script.
RenderStep ==
  LET keys == PageDatasets(dash.page)
      shown == {keys[j] : j \in 1..Len(keys)}
      italy == [d \in Datasets |-> ItalyOnly(dash.frames[d])]
      narrowed == [d \in Datasets |-> Since1995(italy[d].frame)]
      raised == dash.app = "energy_dashboard" /\ \E d \in Datasets : italy[d].raised
      charts ==
        IF dash.app = "energy_dashboard"
          THEN {d \in shown : ~IsEmpty(narrowed[d]) /\ HasCol(narrowed[d], ColYear)}
          ELSE {d \in shown : ~IsEmpty(dash.frames[d])}
  IN /\ dash.pc = "fetching" /\ Len(dash.fetched) = Len(keys)
     /\ dash' = IF raised THEN [dash EXCEPT !.pc = "raised"]
                ELSE [dash EXCEPT !.pc = "rendered", !.charts = charts]
     /\ UNCHANGED <<pipelineVars, resp>>

\* ------------------------------------------------------------------ inputs

TxtEntity == <<"E","n","t","i","t","y">>

TxtCode == <<"C","o","d","e">>

TxtYear == <<"Y","e","a","r">>

\* A third column that is no year column.
TxtPeriod == <<"P","e","r","i","o","d">>

\* The header of the measure column of each CSV (one measure per dataset; the
\* electricity file's header is cut to its first words).
MeasureHeader(key) ==
  CASE key = "co2_emissions" ->
         <<"A","n","n","u","a","l"," ","C","O",Sub2," ",
           "e","m","i","s","s","i","o","n","s">>
    [] key = "electricity_production" ->
         <<"E","l","e","c","t","r","i","c","i","t","y"," ","f","r","o","m"," ",
           "c","o","a","l"," ","-"," ","T","W","h">>
    [] key = "oil_production" ->
         <<"O","i","l"," ","p","r","o","d","u","c","t","i","o","n"," ",
           "(","T","W","h",")">>
    [] key = "energy_prod_cons" ->
         <<"C","o","n","s","u","m","p","t","i","o","n","-","b","a","s","e","d"," ",
           "e","n","e","r","g","y">>

TxtFrance == <<"F","r","a","n","c","e">>

TxtFRA == <<"F","R","A">>

TxtEU == <<"E","U">>

TxtEU27 == <<"E","U","2","7">>

TxtEurasia == <<"E","u","r","a","s","i","a">>

Txt1749 == <<"1","7","4","9">>

Txt1750 == <<"1","7","5","0">>

Txt2025 == <<"2","0","2","5">>

Txt2025f == <<"2","0","2","5",".","0">>

Txt2026 == <<"2","0","2","6">>

TxtAbc == <<"a","b","c">>

\* The rows the cleaning is exercised on: one country in every year text, and
\* the entity varied in a valid year.
RawRows ==
  << <<TxtFrance, TxtFRA, Txt1749, <<"5">>>>,
     <<TxtFrance, TxtFRA, Txt1750, <<"5">>>>,
     <<TxtFrance, TxtFRA, Txt2025, <<"5">>>>,
     <<TxtFrance, TxtFRA, Txt2025f, <<"5">>>>,
     <<TxtFrance, TxtFRA, Txt2026, <<"5">>>>,
     <<TxtFrance, TxtFRA, TxtAbc, <<"5">>>>,
     <<TxtFrance, TxtFRA, <<>>, <<"5">>>>,
     <<TxtEU27, <<>>, Txt2025, <<"7">>>>,
     <<TxtEurasia, <<>>, Txt2025, <<"7">>>> >>

SeqsUpTo(S, n) == UNION {[1..k -> S] : k \in 0..n}

CsvFile(key, yearHeader, rows) ==
  [header |-> <<TxtEntity, TxtCode, yearHeader, MeasureHeader(key)>>, rows |-> rows,
   metadata |-> "valid"]

NoResp == Response("none", "none", <<>>, 0, <<>>, NoStats)

InitRest ==
  /\ today = 0
  /\ tmpRaw = [d \in Datasets |-> Missing]
  /\ tmpClean = [d \in Datasets |-> Missing]
  /\ tables = [d \in Datasets |-> Missing]
  /\ runs = [r \in RunIds |-> NoRun]
  /\ failures = 0
  /\ history = <<>>
  /\ resp = NoResp
  /\ dash = NoDash

\* ------------------------------------------------------------- environment

\* The CSV files of the input directory are replaced while no run is executing.
EditFiles(rows) ==
  /\ \A r \in RunIds : Finished(r)
  /\ \E d \in Datasets : files[d].rows # rows
  /\ files' = [d \in Datasets |-> [files[d] EXCEPT !.rows = rows]]
  /\ UNCHANGED <<today, tmpRaw, tmpClean, tables, runs, failures, history, resp, dash>>

\* The contents the input directory is given over repeated runs: one row, and
\* three rows of which the year filter drops one.
InputChoices ==
  { << <<TxtFrance, TxtFRA, Txt2025, <<"5">>>> >>,
    << <<TxtFrance, TxtFRA, Txt2025, <<"5">>>>,
       <<TxtFrance, TxtFRA, Txt2026, <<"5">>>>,
       <<TxtEU, <<>>, Txt1750, <<"7">>>> >> }

\* The CSV files of the input directory are replaced by longer ones while runs
\* execute.
ReplaceFiles(rows) ==
  /\ \E d \in Datasets : Len(files[d].rows) < Len(rows)
  /\ files' = [d \in Datasets |-> [files[d] EXCEPT !.rows = rows]]
  /\ UNCHANGED <<today, tmpRaw, tmpClean, tables, runs, failures, history, resp, dash>>

\* --------------------------------------------------------- specifications

\* The pipeline over repeated runs, with failing tasks, retries and edits of
\* the input between runs.
Init ==
  /\ \E rows \in InputChoices :
       files = [d \in Datasets |-> CsvFile(d, TxtYear, rows)]
  /\ InitRest

Next ==
  \/ \E r \in RunIds : StartRun(r)
  \/ \E r \in RunIds : LoadDataRead(r)
  \/ \E r \in RunIds : LoadDataWrite(r)
  \/ \E r \in RunIds : LoadDataFail(r)
  \/ \E r \in RunIds : CleanStep(r)
  \/ \E r \in RunIds : CleanFail(r)
  \/ \E r \in RunIds : LoadStep(r)
  \/ \E r \in RunIds, o \in LoadOutcomes : LoadFail(r, o)
  \/ \E r \in RunIds : GenerateReport(r)
  \/ \E rows \in InputChoices : EditFiles(rows)

Spec == Init /\ [][Next]_vars

\* The files of at most MaxRows rows of RawRows, the rows in the order of
\* RawRows (a row may repeat).
RawFiles ==
  { [i \in 1..Len(q) |-> RawRows[q[i]]] :
      q \in { p \in SeqsUpTo(1..Len(RawRows), MaxRows) :
                \A i \in 1..(Len(p) - 1) : p[i] <= p[i + 1] } }

\* Extract and clean of one run without failures, over arbitrary rows, with or
\* without a year column.
InitClean ==
  /\ \E yh \in {TxtYear, TxtPeriod}, rows \in RawFiles :
       files = [d \in Datasets |-> CsvFile(d, yh, rows)]
  /\ InitRest

NextClean ==
  \/ StartRun(1)
  \/ LoadDataRead(1)
  \/ LoadDataWrite(1)
  \/ CleanStep(1)

SpecClean == InitClean /\ [][NextClean]_vars

\* The characters that separate the words of a column name.
Separators == {" ", "-", "_"}

\* The measure columns' names: two words, the second also in parentheses, joined
\* by a run of at most MaxRunLen separators.
ColumnNames ==
  { w \o sep \o u :
      w \in { <<"O","i","l">>, <<"C","O",Sub2>> },
      sep \in SeqsUpTo(Separators, MaxRunLen),
      u \in { <<"T","W","h">>, <<"(","T","W","h",")">> } }

\* Extract and clean of one run over files whose measure column has any of the
\* names.
InitNormalize ==
  /\ \E name \in ColumnNames :
       files = [d \in Datasets |->
                 [header |-> <<TxtEntity, TxtCode, TxtYear, name>>,
                  rows |-> <<RawRows[3]>>, metadata |-> "valid"]]
  /\ InitRest

SpecNormalize == InitNormalize /\ [][NextClean]_vars

\* The input directory as the extract stage can find it: each CSV there or
\* not, each metadata file absent, JSON or not JSON.
InputFiles(d) ==
  {Missing} \cup
    {[CsvFile(d, TxtYear, <<RawRows[3]>>) EXCEPT !.metadata = m] : m \in MetadataStates}

InitExtract ==
  /\ files \in [Datasets -> UNION {InputFiles(d) : d \in Datasets}]
  /\ \A d \in Datasets : files[d] \in InputFiles(d)
  /\ InitRest

NextExtract ==
  \/ \E r \in RunIds : StartRun(r)
  \/ \E r \in RunIds : LoadDataRead(r)
  \/ \E r \in RunIds : LoadDataWrite(r)
  \/ \E r \in RunIds : LoadDataRaise(r)

\* The extract stage over every state of its input files.
SpecExtract == InitExtract /\ [][NextExtract]_vars

\* Runs that may overlap, without failing tasks, the input changing meanwhile;
\* the write and the count of a load iteration are steps of their own.
InitConcurrent ==
  /\ files = [d \in Datasets |-> CsvFile(d, TxtYear, <<RawRows[3]>>)]
  /\ today = 1
  /\ tmpRaw = [d \in Datasets |-> Missing]
  /\ tmpClean = [d \in Datasets |-> Missing]
  /\ tables = [d \in Datasets |-> Missing]
  /\ runs = [r \in RunIds |-> NoRun]
  /\ failures = 0
  /\ history = <<>>
  /\ resp = NoResp
  /\ dash = NoDash

NextConcurrent ==
  \/ \E r \in RunIds : TriggerRun(r)
  \/ \E r \in RunIds : LoadDataRead(r)
  \/ \E r \in RunIds : LoadDataWrite(r)
  \/ \E r \in RunIds : CleanStep(r)
  \/ \E r \in RunIds : LoadWrite(r)
  \/ \E r \in RunIds : LoadCount(r)
  \/ \E r \in RunIds : GenerateReport(r)
  \/ \E rows \in InputChoices : ReplaceFiles(rows)

SpecConcurrent == InitConcurrent /\ [][NextConcurrent]_vars

TxtFRANCE == <<"F","R","A","N","C","E">>

TxtGermany == <<"G","e","r","m","a","n","y">>

TxtDEU == <<"D","E","U">>

TxtITA == <<"I","T","A">>

Txt2020 == <<"2","0","2","0">>

\* The rows the tables are filled with: entity, code, year, measure and
\* entity_type. One entity in two spellings and in the years around 2020, a
\* NULL measure, another country, an aggregate with a NULL code, and the country
\* of the Italy dashboard.
TableRows ==
  << <<Str(TxtFrance), Str(TxtFRA), Num(2020), Num(5), Str(TxtCountry)>>,
     <<Str(TxtFRANCE), Str(TxtFRA), Num(2020), Num(7), Str(TxtCountry)>>,
     <<Str(TxtFrance), Str(TxtFRA), Num(2021), NaN, Str(TxtCountry)>>,
     <<Str(TxtGermany), Str(TxtDEU), Num(2019), Num(3), Str(TxtCountry)>>,
     <<Str(TxtEU27), NaN, Num(2021), Num(9), Str(TxtAggregate)>>,
     <<Str(TxtItaly), Str(TxtITA), Num(2020), Num(4), Str(TxtCountry)>> >>

\* The table of a dataset as the load stage lays it out, holding the rows of
\* TableRows at the given indexes.
TableOf(d, picks) ==
  [cols |-> <<ColId, ColEntity, ColCode, ColYear, NormalizeColumn(MeasureHeader(d)),
              ColDataSource, ColDataQualityFlag, ColLastUpdated, ColEntityType>>,
   rows |-> [i \in 1..Len(picks) |->
              LET w == TableRows[picks[i]]
              IN <<Num(i), w[1], w[2], w[3], w[4],
                   Str(KeyText(d)), Str(TxtClean), Date(1), w[5]>>]]

\* The tables of at most MaxTableRows rows, the rows in the order of TableRows.
TablePicks ==
  { p \in SeqsUpTo(1..Len(TableRows), MaxTableRows) :
      \A i \in 1..(Len(p) - 1) : p[i] <= p[i + 1] }

\* The query strings sent: each parameter absent or given, entity also given
\* empty, year also given a text that is no integer.
QueryStrings ==
  [entity : {Absent, Given(<<>>), Given(TxtFrance)},
   code : {Absent, Given(TxtFRA)},
   year : {Absent, Given(Txt2020), Given(TxtAbc)},
   entity_type : {Absent, Given(TxtCountry)},
   year_min : {Absent, Given(Txt2020)},
   year_max : {Absent, Given(Txt2020)}]

\* The API over loaded tables of arbitrary contents. A response depends on the
\* tables and on its own request only, so each behaviour serves one request.
InitApi ==
  /\ \E picks \in TablePicks : tables = [d \in Datasets |-> TableOf(d, picks)]
  /\ files = [d \in Datasets |-> CsvFile(d, TxtYear, <<>>)]
  /\ today = 1
  /\ tmpRaw = [d \in Datasets |-> Missing]
  /\ tmpClean = [d \in Datasets |-> Missing]
  /\ runs = [r \in RunIds |-> NoRun]
  /\ failures = 0
  /\ history = <<>>
  /\ resp = NoResp
  /\ dash = NoDash

\* The primary keys requested: those of the rows and one beyond.
PrimaryKeys == 1..(MaxTableRows + 1)

\* The query strings sent along with a primary key.
RetrieveQueries ==
  {NoQuery, [NoQuery EXCEPT !.year = Given(Txt2020)], [NoQuery EXCEPT !.year = Given(TxtAbc)]}

NextApi ==
  \/ \E res \in Resources, q \in QueryStrings : resp = NoResp /\ ListRequest(res, q)
  \/ \E res \in Resources, q \in QueryStrings : resp = NoResp /\ SummaryRequest(res, q)
  \/ \E res \in Resources, pk \in PrimaryKeys, q \in RetrieveQueries :
       resp = NoResp /\ RetrieveRequest(res, pk, q)
  \/ \E res \in Resources, verb \in WriteVerbs, pk \in PrimaryKeys :
       resp = NoResp /\ WriteRequest(res, verb, pk)

SpecApi == InitApi /\ [][NextApi]_vars

\* The pipeline over repeated runs, its load failing and retried, the input
\* edited between runs, with the collections requested at any moment; the
\* year column of the files is named Year or Period.
InitServe ==
  /\ \E yh \in {TxtYear, TxtPeriod}, rows \in InputChoices :
       files = [d \in Datasets |-> CsvFile(d, yh, rows)]
  /\ InitRest

NextServe ==
  \/ \E r \in RunIds : StartRun(r)
  \/ \E r \in RunIds : LoadDataRead(r)
  \/ \E r \in RunIds : LoadDataWrite(r)
  \/ \E r \in RunIds : CleanStep(r)
  \/ \E r \in RunIds : LoadStep(r)
  \/ \E r \in RunIds, o \in LoadOutcomes : LoadFail(r, o)
  \/ \E r \in RunIds : GenerateReport(r)
  \/ \E rows \in InputChoices : EditFiles(rows)
  \/ \E res \in Resources : ListRequest(res, NoQuery)

SpecServe == InitServe /\ [][NextServe]_vars

\* The dashboards over loaded tables of arbitrary contents: one run of a script.
NextDashboard ==
  \/ \E app \in Apps, page \in Pages : OpenDashboard(app, page)
  \/ \E outcome \in FetchOutcomes : FetchStep(outcome)
  \/ RenderStep

SpecDashboard == InitApi /\ [][NextDashboard]_vars

\* ------------------------------------------------------------------ claims

\* The year cell of row i of a frame.
YearOf(df, i) == df.rows[i][ColIndex(df, ColYear)]

\* C1: in every cleaned snapshot that has a year column, every row's year is a
\* number and 1750 <= year <= 2025, whatever the input rows were.
C1_YearWithinRange ==
  \A d \in Datasets :
    (Exists(tmpClean[d]) /\ HasCol(tmpClean[d], ColYear)) =>
      \A i \in 1..Len(tmpClean[d].rows) :
        /\ YearOf(tmpClean[d], i).k = "num"
        /\ YearOf(tmpClean[d], i).n >= 1750
        /\ YearOf(tmpClean[d], i).n <= 2025

\* C1's case: a file with a year above the range and a non-numeric year was
\* cleaned, and nothing of it is left.
C1_Witness ==
  \E d \in Datasets :
    /\ Exists(tmpClean[d]) /\ HasCol(tmpClean[d], ColYear)
    /\ Len(tmpRaw[d].rows) = 2
    /\ tmpRaw[d].rows[1][3] = Str(Txt2026)
    /\ tmpRaw[d].rows[2][3] = Str(TxtAbc)
    /\ tmpClean[d].rows = <<>>

\* C2: no two rows of a cleaned snapshot are identical across all columns.
C2_NoIdenticalRows ==
  \A d \in Datasets :
    Exists(tmpClean[d]) =>
      \A i, j \in 1..Len(tmpClean[d].rows) :
        i # j => tmpClean[d].rows[i] # tmpClean[d].rows[j]

\* The entity and entity_type cells of row i of a cleaned frame.
EntityOf(df, i) == df.rows[i][ColIndex(df, ColEntity)]

EntityTypeOf(df, i) == df.rows[i][ColIndex(df, ColEntityType)]

\* C3: in every cleaned snapshot with an entity column, entity_type is
\* 'aggregate' exactly when the entity text contains one of the seven labels
\* (letter case as written), and 'country' otherwise.
C3_EntityTypeIffLabel ==
  \A d \in Datasets :
    (Exists(tmpClean[d]) /\ HasCol(tmpClean[d], ColEntity)) =>
      \A i \in 1..Len(tmpClean[d].rows) :
        LET labelled ==
              \E a \in Aggregates : Contains(EntityOf(tmpClean[d], i).s, a)
        IN /\ EntityOf(tmpClean[d], i).k = "str"
           /\ labelled => EntityTypeOf(tmpClean[d], i) = Str(TxtAggregate)
           /\ ~labelled => EntityTypeOf(tmpClean[d], i) = Str(TxtCountry)

\* C3's case: a cleaned snapshot holds an entity that contains a label
\* ("EU27") and one that contains a label only in another letter case
\* ("Eurasia"), classified differently.
C3_Witness ==
  \E d \in Datasets :
    /\ Exists(tmpClean[d]) /\ Len(tmpClean[d].rows) = 2
    /\ EntityOf(tmpClean[d], 1) = Str(TxtEU27)
    /\ EntityTypeOf(tmpClean[d], 1) = Str(TxtAggregate)
    /\ EntityOf(tmpClean[d], 2) = Str(TxtEurasia)
    /\ EntityTypeOf(tmpClean[d], 2) = Str(TxtCountry)


\* The run started last.
IsCurrent(r) ==
  /\ runs[r].pc # "none"
  /\ \A q \in RunIds : q > r => runs[q].pc = "none"

\* The datasets run r has recorded with status 'success': in the pushed load
\* summary, or in the local one while load_to_postgres executes.
LoadedBy(r) ==
  LET entries ==
        IF "load_summary" \in runs[r].xcom.pushed THEN runs[r].xcom.load_summary
        ELSE IF runs[r].pc = "load_postgres" THEN runs[r].summary
        ELSE <<>>
  IN {entries[i].dataset : i \in {j \in 1..Len(entries) : entries[j].status = "success"}}

\* A table without its first column (the id).
WithoutId(t) ==
  [cols |-> Tail(t.cols), rows |-> [i \in 1..Len(t.rows) |-> Tail(t.rows[i])]]

\* C4: two successful runs in sequence over the same input files leave every
\* table with the same row count and the same count/avg/min/max statistics.
C4_RerunSameStatistics ==
  \A i \in 1..(Len(history) - 1) :
    history[i].input = history[i + 1].input =>
      history[i].stats = history[i + 1].stats

\* C4's case: two runs succeeded over the same three-row input, and the table
\* holds the two rows the filter keeps.
C4_Witness ==
  /\ Len(history) = 2
  /\ history[1].input = history[2].input
  /\ \E d \in Datasets :
       /\ Len(history[2].input[d]) = 3
       /\ history[2].stats[d].count = 2

\* The cleaned rows of a run that is executing: its input files (not edited
\* while it executes), cleaned on its day.
CleanedNow(d) == CleanFrame(ReadCsv(files[d]), KeyText(d), today)

\* C5, first sentence: after a successful load of a dataset its table holds
\* exactly the cleaned rows of the current run (under a fresh id column), none
\* of an earlier run: the rows of the run's cleaned snapshot, which are the
\* run's input cleaned on the run's day.
C5_TableHoldsThisRun ==
  \A r \in RunIds, d \in Datasets :
    (IsCurrent(r) /\ d \in LoadedBy(r)) =>
      /\ tables[d].cols[1] = ColId
      /\ WithoutId(tables[d]) = tmpClean[d]
      /\ ~Finished(r) => tmpClean[d] = CleanedNow(d)

\* Run r executes the iteration of load_to_postgres that loads dataset d.
Loading(r, d) ==
  /\ runs[r].pc = "load_postgres"
  /\ runs[r].i <= Len(runs[r].xcom.cleaned_dataset_keys)
  /\ runs[r].xcom.cleaned_dataset_keys[runs[r].i] = d

\* Run r's iteration on dataset d has ended with a 'success' entry.
LoadedStep(r, d) ==
  /\ Loading(r, d)
  /\ \/ runs'[r].pc = "generate_report"
     \/ runs'[r].pc = "load_postgres" /\ runs'[r].i = runs[r].i + 1

Ids(t) == [i \in 1..Len(t.rows) |-> t.rows[i][ColIndex(t, ColId)]]

\* C6: after every successful load of a dataset with n cleaned rows the ids in
\* its table are exactly 1..n, each once.
C6_IdsContiguousFromOne ==
  \A r \in RunIds, d \in Datasets :
    (IsCurrent(r) /\ d \in LoadedBy(r)) =>
      LET n == Len(tmpClean[d].rows)
      IN /\ HasCol(tables[d], ColId)
         /\ Len(tables[d].rows) = n
         /\ \A i \in 1..n : Ids(tables[d])[i].k = "num"
         /\ {Ids(tables[d])[i].n : i \in 1..n} = 1..n

\* C6's case: the first run loaded one row (id 1), the second run loads two.
C6_Witness ==
  \E d \in Datasets :
    /\ IsCurrent(2) /\ d \in LoadedBy(2)
    /\ Len(history) = 1 /\ history[1].stats[d].count = 1
    /\ Len(tables[d].rows) = 2

\* The parameter of a response's request imposes no constraint.
NoConstraint(p) == ~p.given \/ p.s = <<>>

\* The response answers a collection request with rows.
IsListing == resp.kind = "list" /\ resp.status = 200

\* The text t occurs in the cell as written.
HasText(c, t) == c.k = "str" /\ Contains(c.s, t)

\* The text t occurs in the cell when letter case is ignored.
HasTextAnyCase(c, t) == c.k = "str" /\ Contains(LowerStr(c.s), LowerStr(t))

ResponseTable == tables[resp.resource]

FranceIn2020 ==
  /\ IsListing
  /\ resp.resource = "co2_emissions"
  /\ resp.params.entity = Given(TxtFrance)
  /\ resp.params.year = Given(Txt2020)

\* C7 as stated: GET /co2-emissions/ with year=2020 and entity=France returns
\* only rows whose year is 2020 and whose entity contains "France".
C7_OnlyFrance2020 ==
  FranceIn2020 =>
    \A i \in 1..Len(resp.results) :
      /\ Field(ResponseTable, resp.results[i], "year") = Num(2020)
      /\ HasText(Field(ResponseTable, resp.results[i], "entity"), TxtFrance)

\* C7 amended: GET /co2-emissions/ with year=2020 and entity=France returns
\* only rows whose year is 2020 and whose entity contains "France" when letter
\* case is ignored.
C7_OnlyFrance2020AnyCase ==
  FranceIn2020 =>
    \A i \in 1..Len(resp.results) :
      /\ Field(ResponseTable, resp.results[i], "year") = Num(2020)
      /\ HasTextAnyCase(Field(ResponseTable, resp.results[i], "entity"), TxtFrance)

\* The request is answered with a row spelled FRANCE while the table also holds
\* a row of another year and a row of another entity.
C7_Witness ==
  /\ FranceIn2020
  /\ \E i \in 1..Len(resp.results) :
       Field(ResponseTable, resp.results[i], "entity") = Str(TxtFRANCE)
  /\ \E i \in 1..Len(ResponseTable.rows) :
       Field(ResponseTable, ResponseTable.rows[i], "year") # Num(2020)
  /\ Len(resp.results) < Len(ResponseTable.rows)

\* The year of the cell as a number lies within the bounds the request gives.
YearWithin(c, q) ==
  /\ NoConstraint(q.year) \/ (c.k = "num" /\ c.n = DecValue(q.year.s))
  /\ NoConstraint(q.year_min) \/ (c.k = "num" /\ DecValue(q.year_min.s) <= c.n)
  /\ NoConstraint(q.year_max) \/ (c.k = "num" /\ c.n <= DecValue(q.year_max.s))

SatisfiesExactFilters(row, q) ==
  /\ NoConstraint(q.code) \/ Field(ResponseTable, row, "code") = Str(q.code.s)
  /\ NoConstraint(q.entity_type) \/
       Field(ResponseTable, row, "entity_type") = Str(q.entity_type.s)
  /\ YearWithin(Field(ResponseTable, row, "year"), q)

\* C8 as stated: on every collection endpoint the rows returned are exactly the
\* table rows that satisfy every supplied filter, the entity filter being a
\* substring match; absent and empty parameters do not constrain.
C8_ExactlyTheFilteredRows ==
  IsListing =>
    resp.results =
      SelectSeq(ResponseTable.rows,
        LAMBDA row :
          /\ NoConstraint(resp.params.entity) \/
               HasText(Field(ResponseTable, row, "entity"), resp.params.entity.s)
          /\ SatisfiesExactFilters(row, resp.params))

\* C8 amended: on every collection endpoint the rows returned are exactly the
\* table rows that satisfy every supplied filter, the entity filter being a
\* substring match that ignores letter case; the year bounds are inclusive,
\* absent and empty parameters do not constrain, and no parameters return all.
C8_ExactlyTheFilteredRowsAnyCase ==
  IsListing =>
    resp.results =
      SelectSeq(ResponseTable.rows,
        LAMBDA row :
          /\ NoConstraint(resp.params.entity) \/
               HasTextAnyCase(Field(ResponseTable, row, "entity"), resp.params.entity.s)
          /\ SatisfiesExactFilters(row, resp.params))

\* A request bounded by year_min = year_max = 2020 with an empty entity is
\* answered with the rows of 2020 and without a row of another year.
C8_Witness ==
  /\ IsListing
  /\ resp.params.year_min = Given(Txt2020)
  /\ resp.params.year_max = Given(Txt2020)
  /\ resp.params.entity = Given(<<>>)
  /\ resp.results # <<>>
  /\ Len(resp.results) < Len(ResponseTable.rows)

\* The request's integer parameters are integers.
WellFormed(q) ==
  \A p \in {q.year, q.year_min, q.year_max} : NoConstraint(p) \/ AllDigits(p.s)

\* No row of the table passes the filters of the request.
NothingFiltered ==
  \A i \in 1..Len(ResponseTable.rows) :
    ~ /\ NoConstraint(resp.params.entity) \/
           HasTextAnyCase(Field(ResponseTable, ResponseTable.rows[i], "entity"),
                          resp.params.entity.s)
      /\ SatisfiesExactFilters(ResponseTable.rows[i], resp.params)

Co2SummaryOfNothing ==
  /\ resp.kind = "summary"
  /\ resp.resource = "co2_emissions"
  /\ WellFormed(resp.params)
  /\ NothingFiltered

\* C9: GET /co2-emissions/summary/ on a filtered set with no rows is answered
\* 200 with total_records = 0 and avg_emissions, max_emissions, min_emissions,
\* latest_year and earliest_year all None.
C9_EmptySummary ==
  Co2SummaryOfNothing =>
    /\ resp.status = 200
    /\ DOMAIN resp.stats =
         {"total_records", "avg_emissions", "max_emissions", "min_emissions",
          "latest_year", "earliest_year"}
    /\ resp.stats["total_records"] = Value(0)
    /\ \A n \in DOMAIN resp.stats \ {"total_records"} : resp.stats[n] = None

\* The summary of a table that has rows, none of which passes the filters.
C9_Witness ==
  /\ Co2SummaryOfNothing
  /\ ResponseTable.rows # <<>>
  /\ resp.stats["total_records"] = Value(0)

\* C10: on every resource GET <resource>/summary/ is answered 200 with a body
\* containing total_records, whatever the table holds.
C10_SummarySucceeds ==
  (resp.kind = "summary" /\ WellFormed(resp.params)) =>
    /\ resp.status = 200
    /\ "total_records" \in DOMAIN resp.stats

\* C11: on every collection endpoint a GET without filters or with well-formed
\* filters is answered 200 with a results collection, whatever the table holds;
\* when no row passes the filters or the table is empty the collection is empty
\* and the status is still 200.
C11_ListSucceeds ==
  (resp.kind = "list" /\ WellFormed(resp.params)) =>
    /\ resp.status = 200
    /\ NothingFiltered => resp.results = <<>>
    /\ (\A p \in {resp.params.entity, resp.params.code, resp.params.year,
                  resp.params.entity_type, resp.params.year_min,
                  resp.params.year_max} : ~p.given) =>
         resp.results = ResponseTable.rows

\* A filtered request on a table that has rows is answered 200 with no row.
C11_Witness ==
  /\ resp.kind = "list"
  /\ WellFormed(resp.params)
  /\ resp.params.code = Given(TxtFRA)
  /\ ResponseTable.rows # <<>>
  /\ NothingFiltered
  /\ resp.status = 200
  /\ resp.results = <<>>

\* C12: no request to the API, be it list, retrieve, summary or a write verb
\* (POST, PUT, PATCH, DELETE), changes a table, a temp snapshot, the input
\* files or the state of a pipeline run.
C12_RequestsWriteNothing == [][resp' # resp => UNCHANGED pipelineVars]_vars

\* A DELETE on a table that has rows was refused.
C12_Witness ==
  /\ resp.kind = "DELETE"
  /\ resp.status = 405
  /\ tables[resp.resource].rows # <<>>

\* The stages in the order the claims give them.
StageOrder == <<"load_data", "clean_transform", "load_postgres", "generate_report">>

\* The stage a run is at, or the run's final state.
StageOf(r) == runs[r].pc

\* C13: in every run the stages that completed successfully are load_data,
\* clean_transform, load_postgres, generate_report in this order, each at most
\* once; the one stage the run is executing is the one after the last
\* completed stage, and a run has succeeded exactly when all four completed.
C13_StagesInOrder ==
  \A r \in RunIds :
    LET n == Len(runs[r].done)
    IN /\ n <= Len(StageOrder)
       /\ runs[r].done = SubSeq(StageOrder, 1, n)
       /\ StageOf(r) = "none" => n = 0
       /\ StageOf(r) = "success" <=> n = Len(StageOrder)
       /\ StageOf(r) \notin {"none", "success", "failed"} =>
            (n < Len(StageOrder) /\ StageOf(r) = StageOrder[n + 1])

\* A run whose load stage failed once has completed its four stages.
C13_Witness ==
  \E r \in RunIds :
    /\ StageOf(r) = "success"
    /\ runs[r].done = StageOrder
    /\ failures > 0

\* A task of run r raised in this step.
Raised(r) == failures' = failures + 1 /\ runs'[r] # runs[r]

\* The attempt of run r ended without a result: the stage did not complete,
\* nothing was pushed, and the stage is at its start on its next attempt or the
\* run has failed.
AttemptAborted(r) ==
  /\ runs'[r].done = runs[r].done
  /\ runs'[r].xcom = runs[r].xcom
  /\ \/ /\ runs'[r].pc = runs[r].pc
        /\ runs'[r].try = runs[r].try + 1
        /\ runs'[r].i = 1
        /\ runs'[r].summary = <<>>
        /\ runs'[r].loaded = <<>>
     \/ runs'[r].pc = "failed"

\* A run is past its load stage only with every dataset loaded successfully.
DownstreamOnlyAfterSuccess ==
  \A r \in RunIds :
    /\ StageOf(r) \in {"generate_report", "success"} =>
         /\ Len(runs[r].xcom.load_summary) = Len(DatasetKeys)
         /\ \A j \in 1..Len(DatasetKeys) :
              /\ runs[r].xcom.load_summary[j].dataset = DatasetKeys[j]
              /\ runs[r].xcom.load_summary[j].status = "success"
    /\ StageOf(r) = "failed" => Len(runs[r].done) < Len(StageOrder)

\* C14: an exception raised while a dataset is extracted, cleaned or loaded
\* leaves the stage function: the attempt ends there without processing a
\* later dataset and without pushing a result, the stage is retried from its
\* start or the run fails, and a run gets past a stage only when an attempt of
\* it succeeded on every dataset.
C14_ExceptionsAbortTheStage ==
  /\ []DownstreamOnlyAfterSuccess
  /\ [][\A r \in RunIds : Raised(r) => AttemptAborted(r)]_vars

\* A run failed in its load stage after the first dataset was loaded: the
\* tables of the later datasets were never written.
C14_Witness ==
  \E r \in RunIds :
    /\ StageOf(r) = "failed"
    /\ runs[r].done = <<"load_data", "clean_transform">>
    /\ Exists(tables[DatasetKeys[1]])
    /\ ~Exists(tables[DatasetKeys[Len(DatasetKeys)]])

\* The attempt of its stage a run is in.
AttemptOf(r) == runs[r].try

\* C15: every stage of a run is attempted at most twice; when the second
\* attempt of a stage fails the run is failed, and a failed run attempts
\* nothing more.
C15_AtMostTwoAttempts ==
  /\ [](\A r \in RunIds : AttemptOf(r) <= 2)
  /\ [][\A r \in RunIds :
          /\ (Raised(r) /\ AttemptOf(r) = 2) => runs'[r].pc = "failed"
          /\ (Raised(r) /\ AttemptOf(r) = 1) =>
               (runs'[r].pc = runs[r].pc /\ runs'[r].try = 2)
          /\ StageOf(r) = "failed" => runs'[r] = runs[r]]_vars

\* A run has failed on the second attempt of a stage.
C15_Witness ==
  \E r \in RunIds : StageOf(r) = "failed" /\ AttemptOf(r) = 2 /\ failures = 2

\* The runs that have a stage pending or executing.
ActiveRuns == {r \in RunIds : ~Finished(r)}

\* C16: at most one run of the DAG has a stage pending or executing at any
\* time, so that no two runs write a table or a temp snapshot side by side.
C16_OneRunAtATime == Cardinality(ActiveRuns) <= 1

\* Run r records a load as a success in this step.
RecordsSuccess(r) ==
  /\ runs[r].pc = "load_postgres"
  /\ \/ runs'[r].pc = "load_postgres" /\ Len(runs'[r].summary) = Len(runs[r].summary) + 1
     \/ runs'[r].pc = "generate_report"

\* The entry the step records.
RecordedEntry(r) ==
  IF runs'[r].pc = "load_postgres"
    THEN runs'[r].summary[Len(runs'[r].summary)]
    ELSE runs'[r].xcom.load_summary[Len(runs'[r].xcom.load_summary)]

\* C17: whenever load_to_postgres records a dataset with status 'success', the
\* rows_loaded it records equals the number of cleaned rows this run wrote to
\* the dataset's table.
C17_CountEqualsRowsWritten ==
  [][\A r \in RunIds :
       RecordsSuccess(r) =>
         /\ RecordedEntry(r).status = "success"
         /\ RecordedEntry(r).rows_loaded = Len(runs[r].df.rows)]_vars

\* The cleaning summaries of run r: the one its clean stage is building and the
\* one it pushed.
CleaningSummaries(r) ==
  IF StageOf(r) = "clean_transform"
    THEN {runs[r].summary, runs[r].xcom.cleaning_summary}
    ELSE {runs[r].xcom.cleaning_summary}

\* The run has pushed its final report.
Reported(r) == "final_report" \in runs[r].xcom.pushed

\* C18: every entry of a cleaning summary has removed_rows = original_rows -
\* cleaned_rows and 0 <= cleaned_rows <= original_rows; in the report
\* total_datasets is the number of datasets cleaned and successful_loads +
\* failed_loads is the number of entries of the load summary.
C18_SummaryArithmetic ==
  \A r \in RunIds :
    /\ \A cs \in CleaningSummaries(r) : \A j \in 1..Len(cs) :
         /\ cs[j].removed_rows = cs[j].original_rows - cs[j].cleaned_rows
         /\ 0 <= cs[j].cleaned_rows
         /\ cs[j].cleaned_rows <= cs[j].original_rows
    /\ Reported(r) =>
         /\ runs[r].xcom.total_datasets = Len(runs[r].xcom.cleaning_summary)
         /\ runs[r].xcom.total_datasets =
              Cardinality({runs[r].xcom.cleaning_summary[j].dataset :
                             j \in 1..Len(runs[r].xcom.cleaning_summary)})
         /\ runs[r].xcom.successful_loads + runs[r].xcom.failed_loads =
              Len(runs[r].xcom.load_summary)

\* A run has reported on four datasets, the cleaning having removed a row.
C18_Witness ==
  \E r \in RunIds :
    /\ Reported(r)
    /\ runs[r].xcom.total_datasets = 4
    /\ \E j \in 1..Len(runs[r].xcom.cleaning_summary) :
         /\ runs[r].xcom.cleaning_summary[j].removed_rows = 1
         /\ runs[r].xcom.cleaning_summary[j].cleaned_rows = 2

\* The column names of the cleaned snapshots.
CleanedColumnNames ==
  UNION { {tmpClean[d].cols[j] : j \in 1..Len(tmpClean[d].cols)} : d \in Datasets }

\* The characters a normalized name is to be free of: upper-case letters,
\* whitespace, the hyphen, parentheses.
Unwanted ==
  {UpperChars[i] : i \in 1..26} \cup {" ", "-", "(", ")"}

\* C19: every column name of the cleaned output is lower-case, has no
\* whitespace, hyphen or parenthesis, neither starts nor ends with an
\* underscore, and has no two underscores in a row.
C19_NormalizedNames ==
  \A name \in CleanedColumnNames :
    /\ \A i \in 1..Len(name) : name[i] \notin Unwanted
    /\ name # <<>> => (name[1] # "_" /\ name[Len(name)] # "_")
    /\ ~Contains(name, <<"_", "_">>)

\* The dataset of the script's last fetch_data call.
LastFetched == dash.fetched[Len(dash.fetched)]

\* C20: a script never ends in an exception; a fetch that met another status
\* than 200, a timeout, a connection error or an undecodable body has shown an
\* error and returned an empty frame; and no section is rendered for a dataset
\* whose frame is empty.
C20_DashboardsDegrade ==
  /\ dash.pc # "raised"
  /\ dash.last \in FetchOutcomes \ {"ok"} =>
       /\ LastFetched \in dash.errors
       /\ dash.frames[LastFetched] = EmptyFrame
  /\ \A d \in dash.errors : dash.frames[d] = EmptyFrame
  /\ \A d \in Datasets : IsEmpty(dash.frames[d]) => d \notin dash.charts

\* energy_dashboard.py has rendered a section of Italy's rows beside a dataset
\* whose fetch timed out.
C20_Witness ==
  /\ dash.app = "energy_dashboard"
  /\ dash.pc = "rendered"
  /\ dash.last = "timeout"
  /\ dash.errors # {}
  /\ dash.charts # {}

\* The cell is a number, or a text that reads as a number, within 1750..2025.
CoercesToValidYear(c) ==
  \/ c.k = "num" /\ 1750 <= c.n /\ c.n <= 2025
  \/ c.k = "str" /\ IsNumberText(c.s) /\ 1750 <= NumberValue(c.s) /\ NumberValue(c.s) <= 2025

\* The number a valid year cell coerces to.
CoercedYear(c) == IF c.k = "num" THEN c ELSE Num(NumberValue(c.s))

\* The rows of the extracted frame of d that the cleaning is to keep, in order:
\* the first of each group of equal rows, with a valid year if d has a year
\* column (then with the year as a number).
RowsToKeep(d) ==
  LET raw == tmpRaw[d]
      hasYear == HasCol(tmpClean[d], ColYear)
      y == ColIndex(tmpClean[d], ColYear)
      index == [i \in 1..Len(raw.rows) |-> i]
      kept == SelectSeq(index,
                LAMBDA i : /\ \A j \in 1..(i - 1) : raw.rows[j] # raw.rows[i]
                           /\ hasYear => CoercesToValidYear(raw.rows[i][y]))
  IN [k \in 1..Len(kept) |->
       IF hasYear
         THEN [raw.rows[kept[k]] EXCEPT ![y] = CoercedYear(@)]
         ELSE raw.rows[kept[k]]]

\* The cleaned rows of d without the columns the cleaning adds.
CleanedInputColumns(d) ==
  [i \in 1..Len(tmpClean[d].rows) |->
    SubSeq(tmpClean[d].rows[i], 1, Len(tmpRaw[d].cols))]

\* C21: the cleaned rows of a dataset with a year column are exactly the
\* deduplicated extracted rows whose year coerces to a number in [1750, 2025],
\* the bounds included; a dataset without a year column loses only its exact
\* duplicate rows.
C21_ExactlyTheValidRows ==
  \A d \in Datasets :
    Exists(tmpClean[d]) => CleanedInputColumns(d) = RowsToKeep(d)

\* Of three extracted rows the ones of 1750 and 2025 are kept, the third dropped.
C21_Witness ==
  \E d \in Datasets :
    /\ Exists(tmpClean[d])
    /\ HasCol(tmpClean[d], ColYear)
    /\ Len(tmpRaw[d].rows) = 3
    /\ Len(tmpClean[d].rows) = 2
    /\ YearOf(tmpClean[d], 1) = Num(1750)
    /\ YearOf(tmpClean[d], 2) = Num(2025)

\* The rows the collection endpoint returns, over all pages, for the request of
\* the response.
ListedRows == GetQueryset(resp.resource, resp.params).rows

\* The response is a summary of a request whose integer parameters are integers.
IsSummaryRequest == resp.kind = "summary" /\ WellFormed(resp.params)

\* a <= b for two aggregate values that are not None.
AggLeq(a, b) == a.num * b.den <= b.num * a.den

\* The summary's aggregates are ordered: earliest_year <= latest_year and
\* min_emissions <= avg_emissions <= max_emissions, wherever they are not None.
Co2AggregatesOrdered ==
  LET st == resp.stats
  IN /\ (~st["earliest_year"].null /\ ~st["latest_year"].null) =>
          AggLeq(st["earliest_year"], st["latest_year"])
     /\ (~st["min_emissions"].null /\ ~st["avg_emissions"].null) =>
          /\ AggLeq(st["min_emissions"], st["avg_emissions"])
          /\ AggLeq(st["avg_emissions"], st["max_emissions"])

\* C22: on every resource the summary aggregates the rows the collection
\* endpoint returns for the same parameters: total_records is their number,
\* and for co2-emissions earliest_year <= latest_year and min <= avg <= max.
C22_SummaryOverListedRows ==
  IsSummaryRequest =>
    /\ "total_records" \in DOMAIN resp.stats
    /\ resp.stats["total_records"] = Value(Len(ListedRows))
    /\ (resp.resource = "co2_emissions" /\ ListedRows # <<>>) => Co2AggregatesOrdered

\* The fields the summary of a resource passes to aggregate().
SummaryFields(res) ==
  {SummaryAggregates(res)[i].field : i \in 1..Len(SummaryAggregates(res))}

\* C23: the summaries of electricity-production and energy-prod-cons name
\* fields (electricity_from_fossil_fuels_twh, electricity_from_nuclear_twh,
\* electricity_from_renewables_twh, primary_energy_consumption_twh) their
\* models do not declare, and every field the summaries of co2-emissions and
\* oil-production name is declared; a summary is answered 200 on the latter
\* two resources only.
C23_UndeclaredSummaryFields ==
  /\ {"electricity_from_fossil_fuels_twh", "electricity_from_nuclear_twh",
      "electricity_from_renewables_twh"} =
       SummaryFields("electricity_production") \ ModelFields("electricity_production")
  /\ {"primary_energy_consumption_twh"} =
       SummaryFields("energy_prod_cons") \ ModelFields("energy_prod_cons")
  /\ SummaryFields("co2_emissions") \subseteq ModelFields("co2_emissions")
  /\ SummaryFields("oil_production") \subseteq ModelFields("oil_production")
  /\ IsSummaryRequest =>
       (resp.status = 200 <=> resp.resource \in {"co2_emissions", "oil_production"})

\* The summary of electricity-production was requested and ended in an error.
C23_Witness ==
  /\ IsSummaryRequest
  /\ resp.resource = "electricity_production"
  /\ resp.status = 500
  /\ tables[resp.resource].rows # <<>>

\* A year, year_min or year_max of the request is supplied and is not a number.
MalformedFilter == ~WellFormed(resp.params)

\* C24: a collection request, or a summary request on a resource whose summary
\* fields are declared, that carries a non-numeric year, year_min or year_max
\* is answered 200 with a result, never with an error response.
C24_MalformedFilterNoError ==
  (/\ \/ resp.kind = "list"
      \/ resp.kind = "summary" /\ FieldsResolve(resp.resource)
   /\ MalformedFilter)
    => resp.status = 200

\* generate_report has executed in run r.
ReportExecuted(r) == "final_report" \in runs[r].xcom.pushed

\* The status the report prints for a dataset: that of the dataset's entry in
\* the load summary, 'unknown' when it has none.
ReportedStatus(r, key) ==
  LET found == SelectSeq(runs[r].xcom.load_summary, LAMBDA e : e.dataset = key)
  IN IF found = <<>> THEN "unknown" ELSE found[1].status

\* C25: whenever generate_report executes, the load summary it reads has one
\* 'success' entry for every cleaned dataset: failed_loads = 0,
\* successful_loads = total_datasets, and no dataset is reported as 'failed'
\* or 'unknown'.
C25_ReportSeesOnlySuccess ==
  \A r \in RunIds :
    (runs[r].pc = "generate_report" \/ ReportExecuted(r)) =>
      LET xcom == runs[r].xcom
      IN /\ Len(xcom.load_summary) = Len(xcom.cleaning_summary)
         /\ \A j \in 1..Len(xcom.cleaning_summary) :
              ReportedStatus(r, xcom.cleaning_summary[j].dataset) = "success"
         /\ ReportExecuted(r) =>
              /\ xcom.failed_loads = 0
              /\ xcom.total_datasets = Len(DatasetKeys)
              /\ xcom.successful_loads = xcom.total_datasets

\* A run reported after a task of the pipeline had raised.
C25_Witness ==
  \E r \in RunIds :
    /\ ReportExecuted(r)
    /\ runs[r].xcom.successful_loads = Len(DatasetKeys)
    /\ failures > 0

\* The load stage of run r raised in this step, in the iteration of its k-th
\* dataset.
LoadRaisedAt(r, k) ==
  /\ runs[r].pc = "load_postgres" /\ runs[r].i = k
  /\ Raised(r)

\* The datasets the failed attempt had processed before the k-th hold this
\* run's rows, and no load summary is published for the attempt.
EarlierTablesHoldThisRun(r, k) ==
  /\ \A j \in 1..(k - 1) :
       tables'[DatasetKeys[j]] = InsertId(tmpClean[DatasetKeys[j]])
  /\ runs'[r].xcom = runs[r].xcom
  /\ "load_summary" \notin runs'[r].xcom.pushed

\* C26 as claimed: when the load of the k-th dataset of a run fails, the tables
\* of the datasets before it hold this run's rows, the tables of the datasets
\* after it are as the previous run wrote them (in the first run: never
\* written), and no load summary is published.
C26_LaterTablesOfPreviousRun ==
  [][\A r \in RunIds, k \in 1..Len(DatasetKeys) :
       LoadRaisedAt(r, k) =>
         /\ EarlierTablesHoldThisRun(r, k)
         /\ \A j \in (k + 1)..Len(DatasetKeys) :
              /\ tables'[DatasetKeys[j]] = tables[DatasetKeys[j]]
              /\ r = 1 => ~Exists(tables'[DatasetKeys[j]])]_vars

\* C26 as amended: the tables of the datasets after the k-th are left as they
\* were before the attempt, which is as the previous run wrote them only on
\* the first attempt of the stage; on a retry they can hold what an earlier
\* attempt of the same run left.
C26_LaterTablesUntouched ==
  [][\A r \in RunIds, k \in 1..Len(DatasetKeys) :
       LoadRaisedAt(r, k) =>
         /\ EarlierTablesHoldThisRun(r, k)
         /\ \A j \in (k + 1)..Len(DatasetKeys) :
              /\ tables'[DatasetKeys[j]] = tables[DatasetKeys[j]]
              /\ (r = 1 /\ runs[r].try = 1) => ~Exists(tables'[DatasetKeys[j]])]_vars

\* The load of the first run failed in its second dataset, whose table it left
\* emptied: the first table is written, the third was never written.
C26_Witness ==
  /\ runs[1].pc = "failed"
  /\ runs[1].done = <<"load_data", "clean_transform">>
  /\ tables[DatasetKeys[1]] = InsertId(tmpClean[DatasetKeys[1]])
  /\ Len(tables[DatasetKeys[1]].rows) > 0
  /\ Exists(tables[DatasetKeys[2]])
  /\ Len(tables[DatasetKeys[2]].rows) < Len(tmpClean[DatasetKeys[2]].rows)
  /\ ~Exists(tables[DatasetKeys[3]])

\* The extract stage of run r raised in this step.
ExtractRaised(r) == runs[r].pc = "load_data" /\ Raised(r)

\* Every CSV is there and no metadata file that is there fails to parse.
InputReadable ==
  \A d \in Datasets :
    IF Exists(files[d]) THEN files[d].metadata \in {"missing", "valid"} ELSE FALSE

\* C27: an attempt of load_data_and_metadata that fails on a CSV or on a
\* present metadata file writes no snapshot and pushes no loaded_data_keys;
\* a snapshot is written only by an attempt that has read all four datasets;
\* and on an input whose only defect is a missing metadata file the attempt
\* does not fail.
C27_FailedExtractWritesNothing ==
  /\ [][\A r \in RunIds :
          ExtractRaised(r) =>
            /\ tmpRaw' = tmpRaw
            /\ runs'[r].xcom = runs[r].xcom
            /\ "loaded_data_keys" \notin runs'[r].xcom.pushed
            /\ ~InputReadable]_vars
  /\ [][tmpRaw' # tmpRaw =>
          \E r \in RunIds :
            /\ runs[r].pc = "load_data"
            /\ Len(runs[r].loaded) = Len(DatasetKeys)
            /\ "loaded_data_keys" \in runs[r].xcom.pushed]_vars
  /\ [](\A r \in RunIds :
          ("loaded_data_keys" \in runs[r].xcom.pushed) <=>
            (runs[r].pc = "load_data" /\ runs[r].loaded # <<>>) \/
              "load_data" \in {runs[r].done[j] : j \in 1..Len(runs[r].done)})

\* The first attempt failed on a metadata file that is not JSON, every CSV
\* being there and another metadata file missing: nothing was written.
C27_Witness ==
  /\ runs[1].pc = "load_data" /\ runs[1].try = 2
  /\ \A d \in Datasets : Exists(files[d]) /\ ~Exists(tmpRaw[d])
  /\ {"invalid", "missing"} \subseteq {files[d].metadata : d \in Datasets}

\* C28: the column-name rewrite is idempotent: a name of the cleaned output,
\* which is the rewrite of an input name, is left as it is by the rewrite.
C28_NormalizeIdempotent ==
  \A name \in CleanedColumnNames : NormalizeColumn(name) = name

\* The load stage of run r has read the cleaned snapshot of the dataset of its
\* current iteration (and has written the table from it).
LoadHasRead(r) == runs[r].pc = "load_postgres" /\ Exists(runs[r].df)

\* C29: under every interleaving of two runs a stage reads the snapshots the
\* stage before it wrote in the same run.  For the load stage: the frame it
\* read from /tmp/<key>_cleaned.parquet has the number of rows the clean stage
\* of the same run recorded as cleaned_rows when it wrote that snapshot.
C29_StagesReadOwnSnapshots ==
  \A r \in RunIds :
    LoadHasRead(r) =>
      LET entry == runs[r].xcom.cleaning_summary[runs[r].i]
      IN /\ entry.dataset = runs[r].xcom.cleaned_dataset_keys[runs[r].i]
         /\ Len(runs[r].df.rows) = entry.cleaned_rows

\* The cell of row i of the listing that holds a model field.
ListedField(i, fld) == Field(ResponseTable, resp.results[i], fld)

\* C30: after any sequence of runs, successful or failed, with requests in
\* between, every row a collection returns has a year from 1750 to 2025, an id
\* no other row of the response has, and the entity_type 'aggregate' or
\* 'country'; this includes the reads made between the replacements of the
\* tables within a load and after a replacement that failed.
C30_ListedRowsValid ==
  IsListing =>
    \A i \in 1..Len(resp.results) :
      /\ ListedField(i, "year").k = "num"
      /\ ListedField(i, "year").n \in MinYear..MaxYear
      /\ ListedField(i, "entity_type") \in {Str(TxtAggregate), Str(TxtCountry)}
      /\ \A j \in 1..Len(resp.results) :
           ListedField(j, "id") = ListedField(i, "id") => j = i

\* A collection was listed with an aggregate and a country in it while the
\* second run was replacing the tables, after a load had failed.
C30_Witness ==
  /\ IsListing
  /\ {ListedField(i, "entity_type") : i \in 1..Len(resp.results)} =
       {Str(TxtAggregate), Str(TxtCountry)}
  /\ runs[2].pc = "load_postgres" /\ runs[2].i > 1
  /\ failures > 0

====
